---- MODULE Spec2Model ----
(***************************************************************************)
(* Model of the UMA negotiation engine of wdk-uma-poc: the phase-2 flow    *)
(* UmaService.generatePayResponse, the lazy shared initialization of the   *)
(* Spark wallet, and the record stores these read and write.               *)
(*                                                                         *)
(* Every `await` of the JavaScript code is a point where another request   *)
(* may run; the code between two awaits runs without interruption (one     *)
(* event loop).  Each action below is one such uninterrupted piece together *)
(* with the store access or external completion that resumes it.           *)
(***************************************************************************)
EXTENDS Integers, FiniteSets, Sequences, TLC

(* ---------- bounds of the model ---------- *)

\* number of phase-2 invocations that may overlap
NumCalls == 2

Calls == 1..NumCalls

\* number of phase-1 (discovery) invocations that may overlap
NumLookups == 2

Lookups == 1..NumLookups

\* JavaScript null / undefined, and the value of a local not yet assigned
NULL == "null"
UNDEFINED == "undefined"
UNSET == "unset"

(* ---------- inputs of generatePayResponse ---------- *)

Usernames == {"alice", "bob", "nobody"}
DomainIds == {"d1"}
Nonces == {"n1", "n2"}
Amounts == {1000}
CurrencyArgs == {UNDEFINED}
LayerArgs == {UNDEFINED, "ln", "spark", "POLYGON"}
AssetArgs == {UNDEFINED}

\* The three Lightning layers (absent, 'ln', 'spark') are all tried on the
\* user without a key; the user with a key pays over two of them and over a
\* chain layer; the unknown user, for whom the engine returns before it reads
\* the layer, is tried without a layer and with a chain layer.
PayArgs ==
  {a \in [username : Usernames, domain : DomainIds, amountMsats : Amounts,
           nonce : Nonces, currency : CurrencyArgs, settlementLayer : LayerArgs,
           assetIdentifier : AssetArgs] :
     /\ a.settlementLayer = "ln" => a.username # "alice"
     /\ a.username = "nobody" => a.settlementLayer \in {UNDEFINED, "POLYGON"}}

NoArgs ==
  [username |-> UNSET, domain |-> UNSET, amountMsats |-> 0, nonce |-> UNSET,
   currency |-> UNSET, settlementLayer |-> UNSET, assetIdentifier |-> UNSET]

(* ---------- outcomes of a call ---------- *)

OK == "OK"
USER_NOT_FOUND == "USER_NOT_FOUND"
DUPLICATE_NONCE == "DUPLICATE_NONCE"
ADDRESS_NOT_FOUND == "Address not found for settlement layer"
MISSING_SPARK_KEY == "Lightning payments require a Spark public key"
SEED_NOT_SET == "SPARK_SEED environment variable is not set"
INIT_FAILED == "SparkWallet.initialize failed"
WALLET_UNDEFINED == "TypeError: wallet is undefined"
INVOICE_FAILED == "createLightningInvoice failed"
RATE_FAILED == "calculateMultipliers failed"
BAD_MULTIPLIER == "BigInt(multiplier) failed"

InitErrors == {SEED_NOT_SET, INIT_FAILED}
InvoiceErrors == {SEED_NOT_SET, INIT_FAILED, WALLET_UNDEFINED, INVOICE_FAILED}
DispatchErrors == {ADDRESS_NOT_FOUND, MISSING_SPARK_KEY} \cup InvoiceErrors
RateErrors == {RATE_FAILED, BAD_MULTIPLIER}

(* ---------- the stores as the engine finds them ---------- *)

\* users collection: alice has a settlement-identity key, bob has none
InitialUsers ==
  { [_id |-> "u1", username |-> "alice", domain_id |-> "d1",
     spark_public_key |-> "02aa", is_active |-> TRUE],
    [_id |-> "u2", username |-> "bob", domain_id |-> "d1",
     spark_public_key |-> NULL, is_active |-> TRUE] }

\* chain_addresses collection: chain names are stored in lower case
InitialAddresses ==
  { [user_id |-> "u1", chain_name |-> "spark", address |-> "02aa", is_active |-> TRUE],
    [user_id |-> "u1", chain_name |-> "polygon", address |-> "0xA1", is_active |-> TRUE],
    [user_id |-> "u2", chain_name |-> "base", address |-> "0xB2", is_active |-> TRUE] }

\* domains collection: one tenant; its base currency BTC and USD are active,
\* EUR is configured but not active
InitialDomains ==
  { [_id |-> "d1", domain |-> "pay.example",
     currency_settings |->
       [code \in {"BTC", "USD", "EUR"} |->
          [active |-> code # "EUR", minSendable |-> 1, maxSendable |-> 2000]]] }

VARIABLES
  users,             \* collection 'users'
  chain_addresses,   \* collection 'chain_addresses'
  domains,           \* collection 'domains'
  lookup,            \* the phase-1 invocations: position, arguments, locals, result
  http,              \* the request in the route handler: stage, query, status sent
  mgmt,              \* the user-management invocations: operation, position, locals
  admin,             \* the request in an admin route: stage, route, header, status
  apiKey,            \* process.env.API_KEY
  clock,             \* Date.now(), in milliseconds
  served,            \* number of requests the route has answered and left behind
  payment_requests,  \* collection of Payment Request records
  sparkWallet,       \* UmaService.sparkWallet
  isInitializing,    \* UmaService.isInitializing
  sparkSeed,         \* process.env.SPARK_SEED is set
  initCalls,         \* number of calls of SparkWallet.initialize so far
  initDone,          \* number of those that returned a wallet
  pc,                \* position of each invocation
  args,              \* its arguments
  user,              \* local 'user'
  userAddresses,     \* local 'userAddresses'
  existingPayment,   \* local 'existingPayment'
  wallet,            \* what initializeSparkWallet returned to it
  sdkCalls,          \* the SDK operations it has called
  paymentRequest,    \* local 'paymentRequest'
  paymentId,         \* local 'paymentId'
  result,            \* outcome delivered to the caller
  response,          \* the response object returned on success
  seen               \* how earlier invocations with its nonce had ended when it began

vars ==
  <<users, chain_addresses, domains, lookup, http, mgmt, admin, apiKey, clock,
    served, payment_requests, sparkWallet, isInitializing,
    sparkSeed, initCalls, initDone, pc, args, user, userAddresses,
    existingPayment, wallet, sdkCalls, paymentRequest, paymentId, result,
    response, seen>>

stores == <<users, chain_addresses, domains>>
\* what the negotiation engine neither reads nor writes
beside == <<mgmt, admin, apiKey, clock, served>>
front == <<lookup, http, beside>>
service == <<sparkWallet, isInitializing, sparkSeed, initCalls, initDone>>

\* everything generatePayResponse reads or writes besides the stores
paying ==
  <<payment_requests, service, pc, args, user, userAddresses, existingPayment,
    wallet, sdkCalls, paymentRequest, paymentId, result, response, seen>>

(* ---------- values of locals that hold no object ---------- *)

NoUser ==
  [_id |-> NULL, username |-> NULL, domain_id |-> NULL,
   spark_public_key |-> NULL, is_active |-> FALSE]

NoPayment ==
  [_id |-> NULL, user_id |-> NULL, nonce |-> NULL, amount_msats |-> 0,
   currency |-> NULL, settlement_layer |-> NULL, asset_identifier |-> NULL,
   invoice |-> NULL]

NoSettlement == [layer |-> UNDEFINED, assetIdentifier |-> UNDEFINED]

NoResponse ==
  [pr |-> NULL, settlement |-> NoSettlement, amount |-> 0, currencyCode |-> NULL,
   multiplier |-> 0, fee |-> 0]

(* ---------- the record stores ---------- *)

\* the lookup by username alone, over all domains
getUserByUsernameAndDomain_anyDomain(username, domainId) ==
  LET found == {u \in users : u.username = username}
  IN IF found = {} THEN NoUser ELSE CHOOSE u \in found : TRUE

\* users.findOne({ username, domain_id })
getUserByUsernameAndDomain(username, domainId) ==
  LET found == {u \in users : u.username = username /\ u.domain_id = domainId}
  IN IF found = {} THEN NoUser ELSE CHOOSE u \in found : TRUE

\* chain_addresses.find({ user_id, is_active: true })
getUserAddresses(userId) ==
  {a \in chain_addresses : a.user_id = userId /\ a.is_active}

\* the record carrying the nonce, or none
getPaymentRequestByNonce(nonce) ==
  LET found == {r \in payment_requests : r.nonce = nonce}
  IN IF found = {} THEN NoPayment ELSE CHOOSE r \in found : TRUE

\* identifier the store gives to the next inserted record
NextPaymentId == "p" \o ToString(Cardinality(payment_requests) + 1)

\* insert under the uniqueness constraint on nonce: the new record's id, or
\* null (and no insertion) when a record with the nonce exists
createPaymentRequestId(nonce) ==
  IF getPaymentRequestByNonce(nonce) # NoPayment THEN NULL ELSE NextPaymentId

\* the record inserted without the payment instruction
createPaymentRequestStore_blank(userId, nonce, amountMsats, currency, layer, asset, invoice) ==
  IF getPaymentRequestByNonce(nonce) # NoPayment
  THEN payment_requests
  ELSE payment_requests \cup
         { [_id |-> NextPaymentId, user_id |-> userId, nonce |-> nonce,
            amount_msats |-> amountMsats, currency |-> currency,
            settlement_layer |-> layer, asset_identifier |-> asset,
            invoice |-> NULL] }

\* the insertion without the uniqueness constraint on the nonce
createPaymentRequestStore_unconstrained(userId, nonce, amountMsats, currency, layer, asset, invoice) ==
  payment_requests \cup
    { [_id |-> NextPaymentId, user_id |-> userId, nonce |-> nonce,
       amount_msats |-> amountMsats, currency |-> currency,
       settlement_layer |-> layer, asset_identifier |-> asset,
       invoice |-> invoice] }

createPaymentRequestStore(userId, nonce, amountMsats, currency, layer, asset, invoice) ==
  IF getPaymentRequestByNonce(nonce) # NoPayment
  THEN payment_requests
  ELSE payment_requests \cup
         { [_id |-> NextPaymentId, user_id |-> userId, nonce |-> nonce,
            amount_msats |-> amountMsats, currency |-> currency,
            settlement_layer |-> layer, asset_identifier |-> asset,
            invoice |-> invoice] }

(* ---------- helpers of generatePayResponse ---------- *)

\* String.prototype.toLowerCase on the strings of the model
ToLowerCase(s) ==
  CASE s = "POLYGON" -> "polygon"
    [] s = "Polygon" -> "polygon"
    [] s = "BASE" -> "base"
    [] s = "Alice" -> "alice"
    [] OTHER -> s

\* 'ln' taken for a chain layer
IsChainLayer_ln(settlementLayer) ==
  /\ settlementLayer # UNDEFINED
  /\ settlementLayer # "spark"

\* settlementLayer && settlementLayer !== 'ln' && settlementLayer !== 'spark'
IsChainLayer(settlementLayer) ==
  /\ settlementLayer # UNDEFINED
  /\ settlementLayer # "ln"
  /\ settlementLayer # "spark"

\* the addresses of the layers a finished discovery has advertised, and no other
MatchingAddresses_advertised(addresses, settlementLayer) ==
  {a \in addresses :
     /\ ToLowerCase(a.chain_name) = ToLowerCase(settlementLayer)
     /\ \E l \in DOMAIN lookup :
          /\ lookup[l].pc = "done"
          /\ \E i \in 1..Len(lookup[l].settlementOptions) :
               lookup[l].settlementOptions[i].settlementLayer
                 = ToLowerCase(settlementLayer)}

\* any address of the user taken for the address of the layer
MatchingAddresses_any(addresses, settlementLayer) == addresses

\* userAddresses.find(addr => addr.chain_name.toLowerCase() === layer.toLowerCase())
MatchingAddresses(addresses, settlementLayer) ==
  {a \in addresses : ToLowerCase(a.chain_name) = ToLowerCase(settlementLayer)}

\* the wallet object a call of SparkWallet.initialize returns
WalletOf(n) == "wallet" \o ToString(n)

\* the encoded invoice the SDK returns to an invocation
InvoiceOf(c) == "lnbc" \o ToString(c)

\* the invocation ends: an error is thrown to the caller, or null is returned
Finish(c, outcome) ==
  /\ pc' = [pc EXCEPT ![c] = "done"]
  /\ result' = [result EXCEPT ![c] = outcome]


(* ---------- static configuration and the rate source ---------- *)

\* config/chain-mapping: chain name -> settlement layer and base asset
CHAIN_MAPPING ==
  [chainName \in {"spark", "ethereum", "polygon", "base"} |->
     [layer |-> chainName, asset |-> IF chainName = "spark" THEN "BTC" ELSE "USDT"]]

\* config/currencies: the currency codes the configuration knows
CURRENCIES == [code \in {"BTC", "USD", "EUR"} |-> [code |-> code]]

Assets == {"BTC", "USDT"}

\* what the rate source answers from during one invocation: smallest units of
\* the asset per smallest unit of the currency, 0 where it has no rate
RateTables ==
  { [asset \in Assets |-> [code \in DOMAIN CURRENCIES |-> 1000]],
    [asset \in Assets |-> [code \in DOMAIN CURRENCIES |->
       IF asset = "USDT" /\ code = "USD" THEN 0 ELSE 2000]] }

NoRates == [asset \in Assets |-> [code \in DOMAIN CURRENCIES |-> 0]]

\* marketRates.calculateMultipliers(asset, currencies): an object with one key
\* per requested currency that has a rate
calculateMultipliers(rates, asset, currencies) ==
  [code \in {k \in currencies : rates[asset][k] # 0} |-> rates[asset][code]]

(* ---------- helpers of generateLookupResponse ---------- *)

\* String.prototype.toUpperCase on the layer names of the model
ToUpperCase(s) ==
  CASE s = "spark" -> "SPARK"
    [] s = "ethereum" -> "ETHEREUM"
    [] s = "polygon" -> "POLYGON"
    [] s = "base" -> "BASE"
    [] OTHER -> s

\* the order in which find() returns the rows of a user (no sort is asked
\* for: the order of insertion)
StoredOrder == <<"spark", "solana-mainnet", "polygon", "base">>

\* one entry for every row, rows of one chain name not merged
RECURSIVE RowsAsEntries(_)
RowsAsEntries(rows) ==
  IF rows = {} THEN << >>
  ELSE LET row == CHOOSE r \in rows : TRUE
       IN << [chainName |-> row.chain_name, chainData |-> [address |-> row.address]] >>
          \o RowsAsEntries(rows \ {row})

getFormattedAddresses_rows(userId) == RowsAsEntries(getUserAddresses(userId))

\* userService.getFormattedAddresses: formatted[chain_name] = { address },
\* as the entries of the object in their order
getFormattedAddresses(userId) ==
  LET rows == getUserAddresses(userId)
      names == SelectSeq(StoredOrder, LAMBDA n : \E r \in rows : r.chain_name = n)
  IN [i \in 1..Len(names) |->
        LET row == CHOOSE r \in rows : r.chain_name = names[i]
        IN [chainName |-> row.chain_name, chainData |-> [address |-> row.address]]]

\* an object where a string is expected, as it is serialized
ObjectAsText(chainData) == "{\"address\":\"" \o chainData.address \o "\"}"

\* the identifier synthesized for every layer, 'spark' too
AssetIdentifier_synthesized(mapping, chainData) ==
  mapping.asset \o "_" \o ToUpperCase(mapping.layer)

\* layer === 'spark' ? chainData.address || chainData : `${asset}_${layer.toUpperCase()}`
AssetIdentifier(mapping, chainData) ==
  IF mapping.layer = "spark"
  THEN IF chainData.address # "" THEN chainData.address ELSE ObjectAsText(chainData)
  ELSE mapping.asset \o "_" \o ToUpperCase(mapping.layer)

\* every chain taken for unmapped
IsMapped_never(chainName) == FALSE

\* const mapping = CHAIN_MAPPING[chainName.toLowerCase()]; if (!mapping) continue
IsMapped(chainName) == ToLowerCase(chainName) \in DOMAIN CHAIN_MAPPING

\* UmaService.buildSettlementOptions(chains, currencies), the rate source
\* answering from the table
RECURSIVE buildSettlementOptions(_, _, _)
buildSettlementOptions(chains, currencies, rates) ==
  IF chains = <<>> THEN <<>>
  ELSE LET chainName == Head(chains).chainName
           chainData == Head(chains).chainData
           rest == buildSettlementOptions(Tail(chains), currencies, rates)
       IN IF ~IsMapped(chainName) THEN rest
          ELSE LET mapping == CHAIN_MAPPING[ToLowerCase(chainName)]
               IN << [settlementLayer |-> mapping.layer,
                      assets |-> << [identifier |-> AssetIdentifier(mapping, chainData),
                                     multipliers |->
                                       calculateMultipliers(rates, mapping.asset,
                                                            currencies)] >>] >>
                  \o rest

\* the codes of currency_settings in the order of the object
CurrencyOrder == <<"BTC", "USD", "EUR">>

\* Object.entries(domain.currency_settings).filter(active).map(code)
ActiveCurrencyCodes(domain) ==
  {code \in DOMAIN domain.currency_settings : domain.currency_settings[code].active}

\* UmaService.buildCurrencies(currencySettings): inactive and unknown codes
\* and codes without a multiplier are skipped
buildCurrencies(currencySettings, rates) ==
  LET kept == SelectSeq(CurrencyOrder, LAMBDA code :
                /\ code \in DOMAIN currencySettings
                /\ currencySettings[code].active
                /\ code \in DOMAIN CURRENCIES
                /\ code \in DOMAIN calculateMultipliers(rates, "BTC", {code}))
  IN [i \in 1..Len(kept) |->
        [code |-> CURRENCIES[kept[i]].code,
         min |-> currencySettings[kept[i]].minSendable,
         max |-> currencySettings[kept[i]].maxSendable,
         multiplier |-> calculateMultipliers(rates, "BTC", {kept[i]})[kept[i]]]]

\* the optional field is omitted when the list is empty
SettlementOptionsField_empty(settlementOptions) == {settlementOptions}

\* settlementOptions: settlementOptions.length > 0 ? settlementOptions : undefined
\* (a field that is undefined is left out of the response: no element)
SettlementOptionsField(settlementOptions) ==
  IF Len(settlementOptions) > 0 THEN {settlementOptions} ELSE {}

NoLookupResponse ==
  [callback |-> NULL, minSendable |-> 0, maxSendable |-> 0, currencies |-> <<>>,
   settlementOptions |-> {}]

NoDomain == [_id |-> NULL, domain |-> NULL, currency_settings |-> << >>]

NoLookup ==
  [pc |-> "idle", username |-> UNSET, domain |-> NoDomain, rates |-> NoRates,
   user |-> NoUser, chains |-> <<>>, settlementOptions |-> <<>>,
   result |-> UNSET, response |-> NoLookupResponse]

(* ---------- the request in the route handler ---------- *)

NoQuery ==
  [username |-> UNSET, hostname |-> UNSET, amount |-> UNSET, nonce |-> UNSET,
   currency |-> UNSET, settlementLayer |-> UNSET, assetIdentifier |-> UNSET]

NoRequest ==
  [stage |-> "idle", query |-> NoQuery, amountMsats |-> 0, paymentNonce |-> UNSET,
   domain |-> NoDomain, status |-> 0]

(* ---------- user management and the admin routes at rest ---------- *)

\* number of user-management invocations that may overlap
NumOps == 2

Ops == 1..NumOps

NoOp ==
  [op |-> "none", pc |-> "idle", username |-> UNSET, domainId |-> UNSET,
   userId |-> UNSET, addresses |-> <<>>, existed |-> FALSE, result |-> UNSET]

NoAdminRequest ==
  [stage |-> "idle", route |-> UNSET, authorization |-> UNSET, valid |-> TRUE,
   domainId |-> UNSET, username |-> UNSET, addresses |-> <<>>, domain |-> UNSET,
   status |-> 0]

\* no user-management invocation, no admin request, the clock at its origin;
\* process.env.API_KEY is one of the given values
Resting(keys) ==
  /\ mgmt = [o \in Ops |-> NoOp]
  /\ admin = NoAdminRequest
  /\ apiKey \in keys
  /\ clock = 0
  /\ served = 0

\* the same with no API key configured
RestIdle == Resting({UNDEFINED})

(* ---------- state after construction ---------- *)

\* the pay invocations run on their own: no discovery invocation, no request
\* in a route and no user-management invocation exists beside them
Init ==
  /\ users = InitialUsers
  /\ chain_addresses = InitialAddresses
  /\ domains = InitialDomains
  /\ lookup = << >>
  /\ http = NoRequest
  /\ mgmt = << >>
  /\ admin = NoAdminRequest
  /\ apiKey = UNDEFINED
  /\ clock = 0
  /\ served = 0
  /\ payment_requests = {}
  /\ sparkWallet = UNDEFINED
  /\ isInitializing = FALSE
  /\ sparkSeed \in BOOLEAN
  /\ initCalls = 0
  /\ initDone = 0
  /\ pc = [c \in Calls |-> "idle"]
  /\ args = [c \in Calls |-> NoArgs]
  /\ user = [c \in Calls |-> NoUser]
  /\ userAddresses = [c \in Calls |-> {}]
  /\ existingPayment = [c \in Calls |-> NoPayment]
  /\ wallet = [c \in Calls |-> UNSET]
  /\ sdkCalls = [c \in Calls |-> {}]
  /\ paymentRequest = [c \in Calls |-> UNSET]
  /\ paymentId = [c \in Calls |-> UNSET]
  /\ result = [c \in Calls |-> UNSET]
  /\ response = [c \in Calls |-> NoResponse]
  /\ seen = [c \in Calls |-> [succeeded |-> FALSE, failed |-> FALSE]]

(* ---------- generatePayResponse, piece by piece ---------- *)

\* some earlier invocation with this nonce ended with one of the outcomes
EndedBefore(nonce, outcomes) ==
  \E d \in Calls :
    pc[d] = "done" /\ args[d].nonce = nonce /\ result[d] \in outcomes

\* Nonces are opaque strings: the first nonce that arrives is called "n1"
FreshOrUsed(nonce) ==
  nonce = "n2" => \E d \in Calls : pc[d] # "idle" /\ args[d].nonce = "n1"

\* what is true of a nonce when an invocation carrying it begins
SeenOf(nonce) ==
  [succeeded |-> EndedBefore(nonce, {OK}),
   failed |-> EndedBefore(nonce, InvoiceErrors)]

\* the missing user not noticed
UserMissing_never(u) == FALSE

\* if (!user || !user._id)
UserMissing(u) == u = NoUser \/ u._id = NULL

\* a request arrives and generatePayResponse looks the user up: no user, null
\* is returned (invocations are numbered in their order of arrival)
InvokeUserNotFound(c, a) ==
  /\ pc[c] = "idle"
  /\ \A d \in Calls : d < c => pc[d] # "idle"
  /\ FreshOrUsed(a.nonce)
  /\ UserMissing(getUserByUsernameAndDomain(a.username, a.domain))
  /\ args' = [args EXCEPT ![c] = a]
  /\ seen' = [seen EXCEPT ![c] = SeenOf(a.nonce)]
  /\ Finish(c, USER_NOT_FOUND)
  /\ UNCHANGED <<stores, front, payment_requests, service, user, userAddresses,
                 existingPayment, wallet, sdkCalls, paymentRequest, paymentId,
                 response>>

\* a request arrives and generatePayResponse looks the user up: the user is
\* found and the address lookup is issued
Invoke(c, a) ==
  /\ pc[c] = "idle"
  /\ \A d \in Calls : d < c => pc[d] # "idle"
  /\ FreshOrUsed(a.nonce)
  /\ ~UserMissing(getUserByUsernameAndDomain(a.username, a.domain))
  /\ args' = [args EXCEPT ![c] = a]
  /\ seen' = [seen EXCEPT ![c] = SeenOf(a.nonce)]
  /\ user' = [user EXCEPT ![c] = getUserByUsernameAndDomain(a.username, a.domain)]
  /\ pc' = [pc EXCEPT ![c] = "getAddresses"]
  /\ UNCHANGED <<stores, front, payment_requests, service, userAddresses,
                 existingPayment, wallet, sdkCalls, paymentRequest, paymentId,
                 result, response>>

\* the address lookup reads the store; the nonce lookup is issued
GetAddresses(c) ==
  /\ pc[c] = "getAddresses"
  /\ userAddresses' = [userAddresses EXCEPT ![c] = getUserAddresses(user[c]._id)]
  /\ pc' = [pc EXCEPT ![c] = "checkNonce"]
  /\ UNCHANGED <<stores, front, payment_requests, service, args, user,
                 existingPayment, wallet, sdkCalls, paymentRequest, paymentId,
                 result, response, seen>>

\* the nonce lookup reads the store
CheckNonce(c) ==
  /\ pc[c] = "checkNonce"
  /\ existingPayment' =
       [existingPayment EXCEPT ![c] = getPaymentRequestByNonce(args[c].nonce)]
  /\ pc' = [pc EXCEPT ![c] = "dispatch"]
  /\ UNCHANGED <<stores, front, payment_requests, service, args, user, userAddresses,
                 wallet, sdkCalls, paymentRequest, paymentId, result, response,
                 seen>>

\* the check of the nonce lookup left out
NonceExists_never(existing) == FALSE

\* if (existingPayment)
NonceExists(existing) == existing # NoPayment

\* the nonce lookup found a record: DUPLICATE_NONCE is thrown
RejectDuplicate(c) ==
  /\ pc[c] = "dispatch"
  /\ NonceExists(existingPayment[c])
  /\ Finish(c, DUPLICATE_NONCE)
  /\ UNCHANGED <<stores, front, payment_requests, service, args, user, userAddresses,
                 existingPayment, wallet, sdkCalls, paymentRequest, paymentId,
                 response, seen>>

\* the record written before the address is looked for
DispatchAddressNotFound_stores(c) ==
  /\ pc[c] = "dispatch"
  /\ existingPayment[c] = NoPayment
  /\ IsChainLayer(args[c].settlementLayer)
  /\ MatchingAddresses(userAddresses[c], args[c].settlementLayer) = {}
  /\ payment_requests' =
       createPaymentRequestStore(user[c]._id, args[c].nonce, args[c].amountMsats,
                                 args[c].currency, args[c].settlementLayer,
                                 args[c].assetIdentifier, NULL)
  /\ Finish(c, ADDRESS_NOT_FOUND)
  /\ UNCHANGED <<stores, front, service, args, user, userAddresses, existingPayment,
                 wallet, sdkCalls, paymentRequest, paymentId, response, seen>>

\* a chain layer without an address of the user: the error is thrown
DispatchAddressNotFound(c) ==
  /\ pc[c] = "dispatch"
  /\ ~NonceExists(existingPayment[c])
  /\ IsChainLayer(args[c].settlementLayer)
  /\ MatchingAddresses(userAddresses[c], args[c].settlementLayer) = {}
  /\ Finish(c, ADDRESS_NOT_FOUND)
  /\ UNCHANGED <<stores, front, payment_requests, service, args, user, userAddresses,
                 existingPayment, wallet, sdkCalls, paymentRequest, paymentId,
                 response, seen>>

\* a chain layer: the stored address is the payment request; the insertion
\* of the record is issued
DispatchAddress(c) ==
  /\ pc[c] = "dispatch"
  /\ ~NonceExists(existingPayment[c])
  /\ IsChainLayer(args[c].settlementLayer)
  /\ \E a \in MatchingAddresses(userAddresses[c], args[c].settlementLayer) :
       paymentRequest' = [paymentRequest EXCEPT ![c] = a.address]
  /\ pc' = [pc EXCEPT ![c] = "store"]
  /\ UNCHANGED <<stores, front, payment_requests, service, args, user, userAddresses,
                 existingPayment, wallet, sdkCalls, paymentId, result, response,
                 seen>>

\* if (!user.spark_public_key)
HasSparkKey(u) == u.spark_public_key # NULL /\ u.spark_public_key # ""

\* Lightning or Spark for a user without a Spark public key: the error is thrown
DispatchMissingKey(c) ==
  /\ pc[c] = "dispatch"
  /\ ~NonceExists(existingPayment[c])
  /\ ~IsChainLayer(args[c].settlementLayer)
  /\ ~HasSparkKey(user[c])
  /\ Finish(c, MISSING_SPARK_KEY)
  /\ UNCHANGED <<stores, front, payment_requests, service, args, user, userAddresses,
                 existingPayment, wallet, sdkCalls, paymentRequest, paymentId,
                 response, seen>>

\* Lightning or Spark: generateLightningInvoice calls initializeSparkWallet
EntersLightning(c) ==
  /\ pc[c] = "dispatch"
  /\ ~NonceExists(existingPayment[c])
  /\ ~IsChainLayer(args[c].settlementLayer)
  /\ HasSparkKey(user[c])


(* ---------- initializeSparkWallet and generateLightningInvoice ---------- *)

\* initializeSparkWallet threw instead of returning
THREW == "threw"

\* the stored wallet not looked at
WalletIsSet_never == FALSE

\* if (this.sparkWallet)
WalletIsSet == sparkWallet # UNDEFINED /\ sparkWallet # NULL

\* the flag not raised
FlagDuringInit_unset == FALSE

\* this.isInitializing = true
FlagDuringInit == TRUE

\* the flag not cleared
FlagAfterInit_stuck == TRUE

\* finally { this.isInitializing = false }
FlagAfterInit == FALSE

\* this.sparkWallet = wallet
StoredWallet(w) == w

\* the wallet is there: it is returned and createLightningInvoice is called
WalletReady(c) ==
  /\ EntersLightning(c)
  /\ WalletIsSet
  /\ wallet' = [wallet EXCEPT ![c] = sparkWallet]
  /\ sdkCalls' = [sdkCalls EXCEPT ![c] = @ \cup {"createLightningInvoice"}]
  /\ pc' = [pc EXCEPT ![c] = "createInvoice"]
  /\ UNCHANGED <<stores, front, payment_requests, service, args, user, userAddresses,
                 existingPayment, paymentRequest, paymentId, result, response,
                 seen>>

\* another invocation is initializing: enter the polling loop
WaitForInit(c) ==
  /\ EntersLightning(c)
  /\ ~WalletIsSet
  /\ isInitializing
  /\ pc' = [pc EXCEPT ![c] = "waitInit"]
  /\ UNCHANGED <<stores, front, payment_requests, service, args, user, userAddresses,
                 existingPayment, wallet, sdkCalls, paymentRequest, paymentId,
                 result, response, seen>>

\* first caller without SPARK_SEED: the flag is set, the error thrown, the
\* flag cleared by the finally block, all without an await in between
InitMissingSeed(c) ==
  /\ EntersLightning(c)
  /\ ~WalletIsSet
  /\ ~isInitializing
  /\ ~sparkSeed
  /\ isInitializing' = FlagAfterInit
  /\ wallet' = [wallet EXCEPT ![c] = THREW]
  /\ Finish(c, SEED_NOT_SET)
  /\ UNCHANGED <<stores, front, payment_requests, sparkWallet, sparkSeed, initCalls,
                 initDone, args, user, userAddresses, existingPayment, sdkCalls,
                 paymentRequest, paymentId, response, seen>>

\* first caller: the flag is set and SparkWallet.initialize is called
StartInitialize(c) ==
  /\ EntersLightning(c)
  /\ ~WalletIsSet
  /\ ~isInitializing
  /\ sparkSeed
  /\ isInitializing' = FlagDuringInit
  /\ initCalls' = initCalls + 1
  /\ sdkCalls' = [sdkCalls EXCEPT ![c] = @ \cup {"initialize"}]
  /\ pc' = [pc EXCEPT ![c] = "initializing"]
  /\ UNCHANGED <<stores, front, payment_requests, sparkWallet, sparkSeed, initDone,
                 args, user, userAddresses, existingPayment, wallet,
                 paymentRequest, paymentId, result, response, seen>>

\* SparkWallet.initialize returns a wallet: it is stored, the flag cleared,
\* and createLightningInvoice is called on it
InitializeSucceeds(c) ==
  /\ pc[c] = "initializing"
  /\ sparkWallet' = StoredWallet(WalletOf(initCalls))
  /\ isInitializing' = FlagAfterInit
  /\ initDone' = initDone + 1
  /\ wallet' = [wallet EXCEPT ![c] = sparkWallet']
  /\ sdkCalls' = [sdkCalls EXCEPT ![c] = @ \cup {"createLightningInvoice"}]
  /\ pc' = [pc EXCEPT ![c] = "createInvoice"]
  /\ UNCHANGED <<stores, front, payment_requests, sparkSeed, initCalls, args, user,
                 userAddresses, existingPayment, paymentRequest, paymentId,
                 result, response, seen>>

\* SparkWallet.initialize throws: the flag is cleared and the error rethrown
InitializeFails(c) ==
  /\ pc[c] = "initializing"
  /\ isInitializing' = FlagAfterInit
  /\ wallet' = [wallet EXCEPT ![c] = THREW]
  /\ Finish(c, INIT_FAILED)
  /\ UNCHANGED <<stores, front, payment_requests, sparkWallet, sparkSeed, initCalls,
                 initDone, args, user, userAddresses, existingPayment, sdkCalls,
                 paymentRequest, paymentId, response, seen>>

\* a poll finds the flag cleared and a wallet stored (a poll that finds the
\* flag set changes nothing and sleeps again)
PollInit(c) ==
  /\ pc[c] = "waitInit"
  /\ ~isInitializing
  /\ WalletIsSet
  /\ wallet' = [wallet EXCEPT ![c] = sparkWallet]
  /\ sdkCalls' = [sdkCalls EXCEPT ![c] = @ \cup {"createLightningInvoice"}]
  /\ pc' = [pc EXCEPT ![c] = "createInvoice"]
  /\ UNCHANGED <<stores, front, payment_requests, service, args, user, userAddresses,
                 existingPayment, paymentRequest, paymentId, result, response,
                 seen>>

\* a poll finds the flag cleared and no wallet stored: initializeSparkWallet
\* returns this.sparkWallet as it is, and wallet.createLightningInvoice throws
PollInitNoWallet(c) ==
  /\ pc[c] = "waitInit"
  /\ ~isInitializing
  /\ ~WalletIsSet
  /\ wallet' = [wallet EXCEPT ![c] = sparkWallet]
  /\ Finish(c, WALLET_UNDEFINED)
  /\ UNCHANGED <<stores, front, payment_requests, service, args, user, userAddresses,
                 existingPayment, sdkCalls, paymentRequest, paymentId, response,
                 seen>>

\* createLightningInvoice returns: the insertion of the record is issued
CreateInvoiceSucceeds(c) ==
  /\ pc[c] = "createInvoice"
  /\ paymentRequest' = [paymentRequest EXCEPT ![c] = InvoiceOf(c)]
  /\ pc' = [pc EXCEPT ![c] = "store"]
  /\ UNCHANGED <<stores, front, payment_requests, service, args, user, userAddresses,
                 existingPayment, wallet, sdkCalls, paymentId, result, response,
                 seen>>

\* the failed call tried again: the invocation goes back to ask for the wallet
CreateInvoiceFails_retries(c) ==
  /\ pc[c] = "createInvoice"
  /\ pc' = [pc EXCEPT ![c] = "dispatch"]
  /\ UNCHANGED <<stores, front, payment_requests, service, args, user, userAddresses,
                 existingPayment, wallet, sdkCalls, paymentRequest, paymentId,
                 result, response, seen>>

\* the nonce reserved although the invoice could not be created
CreateInvoiceFails_burns(c) ==
  /\ pc[c] = "createInvoice"
  /\ payment_requests' =
       createPaymentRequestStore(user[c]._id, args[c].nonce, args[c].amountMsats,
                                 args[c].currency, args[c].settlementLayer,
                                 args[c].assetIdentifier, NULL)
  /\ Finish(c, INVOICE_FAILED)
  /\ UNCHANGED <<stores, front, service, args, user, userAddresses, existingPayment,
                 wallet, sdkCalls, paymentRequest, paymentId, response, seen>>

\* createLightningInvoice throws: the error is logged and rethrown
CreateInvoiceFails(c) ==
  /\ pc[c] = "createInvoice"
  /\ Finish(c, INVOICE_FAILED)
  /\ UNCHANGED <<stores, front, payment_requests, service, args, user, userAddresses,
                 existingPayment, wallet, sdkCalls, paymentRequest, paymentId,
                 response, seen>>


(* ---------- storing the record and shaping the response ---------- *)

\* the null answer of the insertion ignored
InsertRejected_never(id) == FALSE

\* if (paymentId === null)
InsertRejected(id) == id = NULL

\* the insertion reaches the store and finds the nonce taken: null comes
\* back and DUPLICATE_NONCE is thrown
StoreDuplicate(c) ==
  /\ pc[c] = "store"
  /\ LET id == createPaymentRequestId(args[c].nonce)
     IN /\ InsertRejected(id)
        /\ paymentId' = [paymentId EXCEPT ![c] = id]
  /\ payment_requests' =
       createPaymentRequestStore(user[c]._id, args[c].nonce, args[c].amountMsats,
                                 args[c].currency, args[c].settlementLayer,
                                 args[c].assetIdentifier, paymentRequest[c])
  /\ Finish(c, DUPLICATE_NONCE)
  /\ UNCHANGED <<stores, front, service, args, user, userAddresses, existingPayment,
                 wallet, sdkCalls, paymentRequest, response, seen>>

\* the insertion reaches the store; the rate lookup is issued
StoreRecord(c) ==
  /\ pc[c] = "store"
  /\ LET id == createPaymentRequestId(args[c].nonce)
     IN /\ ~InsertRejected(id)
        /\ paymentId' = [paymentId EXCEPT ![c] = id]
  /\ payment_requests' =
       createPaymentRequestStore(user[c]._id, args[c].nonce, args[c].amountMsats,
                                 args[c].currency, args[c].settlementLayer,
                                 args[c].assetIdentifier, paymentRequest[c])
  /\ pc' = [pc EXCEPT ![c] = "rates"]
  /\ UNCHANGED <<stores, front, service, args, user, userAddresses, existingPayment,
                 wallet, sdkCalls, paymentRequest, result, response, seen>>

\* multipliers the rate source may answer with
Multipliers == {0, 1000}

\* if (settlementLayer && assetIdentifier) settlementInfo = {...}
SettlementInfo(settlementLayer, assetIdentifier) ==
  IF settlementLayer # UNDEFINED /\ assetIdentifier # UNDEFINED
  THEN [layer |-> settlementLayer, assetIdentifier |-> assetIdentifier]
  ELSE NoSettlement

\* currency || 'USD'
CurrencyCode(currency) == IF currency = UNDEFINED THEN "USD" ELSE currency

\* the quotient rounded up
AmountInCurrencyUnits_up(amountMsats, receiverFees, multiplier) ==
  (amountMsats - receiverFees + multiplier - 1) \div multiplier

\* BigInt(amountMsats - receiverFees) / BigInt(multiplier)
AmountInCurrencyUnits(amountMsats, receiverFees, multiplier) ==
  (amountMsats - receiverFees) \div multiplier

\* the rate lookup throws: the error reaches the caller
RatesThrow(c) ==
  /\ pc[c] = "rates"
  /\ Finish(c, RATE_FAILED)
  /\ UNCHANGED <<stores, front, payment_requests, service, args, user, userAddresses,
                 existingPayment, wallet, sdkCalls, paymentRequest, paymentId,
                 response, seen>>

\* a multiplier of one put in the place of the missing one
RatesNoMultiplier_defaults(c) ==
  /\ pc[c] = "rates"
  /\ response' = [response EXCEPT ![c] =
       [pr |-> paymentRequest[c], settlement |-> NoSettlement,
        amount |-> args[c].amountMsats, currencyCode |-> "USD",
        multiplier |-> 1, fee |-> 0]]
  /\ Finish(c, OK)
  /\ UNCHANGED <<stores, front, payment_requests, service, args, user,
                 userAddresses, existingPayment, wallet, sdkCalls,
                 paymentRequest, paymentId, seen>>

\* the rate lookup answers without a multiplier for the currency, or with
\* zero: BigInt(undefined) or the division throws
RatesNoMultiplier(c) ==
  /\ pc[c] = "rates"
  /\ Finish(c, BAD_MULTIPLIER)
  /\ UNCHANGED <<stores, front, payment_requests, service, args, user, userAddresses,
                 existingPayment, wallet, sdkCalls, paymentRequest, paymentId,
                 response, seen>>

\* the rate lookup answers: the response is built and returned
Respond(c, multiplier) ==
  /\ pc[c] = "rates"
  /\ multiplier # 0
  /\ response' = [response EXCEPT ![c] =
       [pr |-> paymentRequest[c],
        settlement |-> SettlementInfo(args[c].settlementLayer,
                                      args[c].assetIdentifier),
        amount |-> AmountInCurrencyUnits(args[c].amountMsats, 0, multiplier),
        currencyCode |-> CurrencyCode(args[c].currency),
        multiplier |-> multiplier,
        fee |-> 0]]
  /\ Finish(c, OK)
  /\ UNCHANGED <<stores, front, payment_requests, service, args, user, userAddresses,
                 existingPayment, wallet, sdkCalls, paymentRequest, paymentId,
                 seen>>

(* ---------- generateLookupResponse, piece by piece ---------- *)

\* a discovery request arrives and generateLookupResponse looks the user up:
\* no user, null is returned (invocations are numbered in order of arrival)
LookupInvokeUserNotFound(l, username, domain) ==
  /\ lookup[l].pc = "idle"
  /\ \A d \in Lookups : d < l => lookup[d].pc # "idle"
  /\ getUserByUsernameAndDomain(username, domain._id) = NoUser
  /\ lookup' = [lookup EXCEPT ![l] =
       [@ EXCEPT !.pc = "done", !.username = username, !.domain = domain,
                 !.result = USER_NOT_FOUND]]
  /\ UNCHANGED <<stores, http, beside, paying>>

\* the user is found and the lookup of the formatted addresses is issued
LookupInvoke(l, username, domain) ==
  /\ lookup[l].pc = "idle"
  /\ \A d \in Lookups : d < l => lookup[d].pc # "idle"
  /\ getUserByUsernameAndDomain(username, domain._id) # NoUser
  /\ lookup' = [lookup EXCEPT ![l] =
       [@ EXCEPT !.pc = "addresses", !.username = username, !.domain = domain,
                 !.user = getUserByUsernameAndDomain(username, domain._id)]]
  /\ UNCHANGED <<stores, http, beside, paying>>

\* chains = user._id ? await userService.getFormattedAddresses(user._id) : {}
FormatAddresses(l) ==
  /\ lookup[l].pc = "addresses"
  /\ lookup' = [lookup EXCEPT ![l] =
       [@ EXCEPT !.pc = "options",
                 !.chains = IF lookup[l].user._id # NULL
                            THEN getFormattedAddresses(lookup[l].user._id)
                            ELSE <<>>]]
  /\ UNCHANGED <<stores, http, beside, paying>>

\* buildSettlementOptions calls the rate source for a chain that is mapped
CallsRatesForOptions(chains) ==
  \E i \in 1..Len(chains) : ToLowerCase(chains[i].chainName) \in DOMAIN CHAIN_MAPPING

\* the options held back once a Payment Request record exists
BuildOptions_forgetful(l, rates) ==
  /\ lookup[l].pc = "options"
  /\ lookup' = [lookup EXCEPT ![l] =
       [@ EXCEPT !.pc = "currencies", !.rates = rates,
                 !.settlementOptions =
                    IF payment_requests # {} THEN <<>>
                    ELSE buildSettlementOptions(lookup[l].chains,
                                                ActiveCurrencyCodes(lookup[l].domain),
                                                rates)]]
  /\ UNCHANGED <<stores, http, beside, paying>>

\* buildSettlementOptions returns; the rate source answered every call of the
\* loop from one table (the loop reads nothing but its arguments between
\* its awaits)
BuildOptions(l, rates) ==
  /\ lookup[l].pc = "options"
  /\ lookup' = [lookup EXCEPT ![l] =
       [@ EXCEPT !.pc = "currencies", !.rates = rates,
                 !.settlementOptions =
                    buildSettlementOptions(lookup[l].chains,
                                           ActiveCurrencyCodes(lookup[l].domain),
                                           rates)]]
  /\ UNCHANGED <<stores, http, beside, paying>>

\* the rate source throws inside buildSettlementOptions
BuildOptionsThrow(l) ==
  /\ lookup[l].pc = "options"
  /\ CallsRatesForOptions(lookup[l].chains)
  /\ lookup' = [lookup EXCEPT ![l] = [@ EXCEPT !.pc = "done", !.result = RATE_FAILED]]
  /\ UNCHANGED <<stores, http, beside, paying>>

\* buildCurrencies calls the rate source for an active code the configuration knows
CallsRatesForCurrencies(currencySettings) ==
  \E code \in DOMAIN currencySettings :
    currencySettings[code].active /\ code \in DOMAIN CURRENCIES

\* this.getBaseUrlForDomain(domain) outside production, then the callback
Callback(domain, username) ==
  "http://" \o domain.domain \o "/.well-known/lnurlp/" \o username

\* the discovery recorded in the store of payment requests, under a nonce
BuildCurrencies_recording(l) ==
  /\ lookup[l].pc = "currencies"
  /\ lookup' = [lookup EXCEPT ![l] = [@ EXCEPT !.pc = "done", !.result = OK]]
  /\ payment_requests' =
       createPaymentRequestStore(lookup[l].user._id, "n1", 0, NULL, UNDEFINED,
                                 UNDEFINED, NULL)
  /\ UNCHANGED <<stores, http, beside, service, pc, args, user, userAddresses,
                 existingPayment, wallet, sdkCalls, paymentRequest, paymentId,
                 result, response, seen>>

\* buildCurrencies returns and the response is composed and returned
BuildCurrencies(l) ==
  /\ lookup[l].pc = "currencies"
  /\ lookup' = [lookup EXCEPT ![l] =
       [@ EXCEPT !.pc = "done", !.result = OK,
                 !.response =
                    [callback |-> Callback(lookup[l].domain, lookup[l].username),
                     minSendable |-> lookup[l].domain.currency_settings["BTC"].minSendable,
                     maxSendable |-> lookup[l].domain.currency_settings["BTC"].maxSendable,
                     currencies |-> buildCurrencies(lookup[l].domain.currency_settings,
                                                    lookup[l].rates),
                     settlementOptions |->
                       SettlementOptionsField(lookup[l].settlementOptions)]]]
  /\ UNCHANGED <<stores, http, beside, paying>>

\* the rate source throws inside buildCurrencies
BuildCurrenciesThrow(l) ==
  /\ lookup[l].pc = "currencies"
  /\ CallsRatesForCurrencies(lookup[l].domain.currency_settings)
  /\ lookup' = [lookup EXCEPT ![l] = [@ EXCEPT !.pc = "done", !.result = RATE_FAILED]]
  /\ UNCHANGED <<stores, http, beside, paying>>

(* ---------- specification ---------- *)

Next ==
  \/ \E c \in Calls, a \in PayArgs : InvokeUserNotFound(c, a)
  \/ \E c \in Calls, a \in PayArgs : Invoke(c, a)
  \/ \E c \in Calls : GetAddresses(c)
  \/ \E c \in Calls : CheckNonce(c)
  \/ \E c \in Calls : RejectDuplicate(c)
  \/ \E c \in Calls : DispatchAddressNotFound(c)
  \/ \E c \in Calls : DispatchAddress(c)
  \/ \E c \in Calls : DispatchMissingKey(c)
  \/ \E c \in Calls : WalletReady(c)
  \/ \E c \in Calls : WaitForInit(c)
  \/ \E c \in Calls : InitMissingSeed(c)
  \/ \E c \in Calls : StartInitialize(c)
  \/ \E c \in Calls : InitializeSucceeds(c)
  \/ \E c \in Calls : InitializeFails(c)
  \/ \E c \in Calls : PollInit(c)
  \/ \E c \in Calls : PollInitNoWallet(c)
  \/ \E c \in Calls : CreateInvoiceSucceeds(c)
  \/ \E c \in Calls : CreateInvoiceFails(c)
  \/ \E c \in Calls : StoreDuplicate(c)
  \/ \E c \in Calls : StoreRecord(c)
  \/ \E c \in Calls : RatesThrow(c)
  \/ \E c \in Calls : RatesNoMultiplier(c)
  \/ \E c \in Calls, m \in Multipliers : Respond(c, m)

Spec == Init /\ [][Next]_vars

(* ---------- the engine called directly: discovery beside a payment ---------- *)

\* chain_addresses in another state: alice's spark address was set to blanks
\* (stored trimmed, so empty), she has an address on a chain the mapping does
\* not know, and bob has no address at all
OtherAddresses ==
  { [user_id |-> "u1", chain_name |-> "spark", address |-> "", is_active |-> TRUE],
    [user_id |-> "u1", chain_name |-> "solana-mainnet", address |-> "So1",
     is_active |-> TRUE],
    [user_id |-> "u1", chain_name |-> "polygon", address |-> "0xA1", is_active |-> TRUE] }

AddressStores == {InitialAddresses, OtherAddresses}

\* the payment invocation that runs beside the discovery invocations
EnginePayArgs ==
  [username : Usernames, domain : DomainIds, amountMsats : Amounts,
   nonce : {"n1"}, currency : CurrencyArgs,
   settlementLayer : {"spark", "solana-mainnet"},
   assetIdentifier : AssetArgs]

\* the state the engine is constructed in, with the wallet seed configured
\* (TRUE) or missing (FALSE)
EngineStart(seeds) ==
  /\ users = InitialUsers
  /\ chain_addresses \in AddressStores
  /\ domains = InitialDomains
  /\ lookup = [l \in Lookups |-> NoLookup]
  /\ http = NoRequest
  /\ RestIdle
  /\ payment_requests = {}
  /\ sparkWallet = UNDEFINED
  /\ isInitializing = FALSE
  /\ sparkSeed \in seeds
  /\ initCalls = 0
  /\ initDone = 0
  /\ pc = [c \in Calls |-> "idle"]
  /\ args = [c \in Calls |-> NoArgs]
  /\ user = [c \in Calls |-> NoUser]
  /\ userAddresses = [c \in Calls |-> {}]
  /\ existingPayment = [c \in Calls |-> NoPayment]
  /\ wallet = [c \in Calls |-> UNSET]
  /\ sdkCalls = [c \in Calls |-> {}]
  /\ paymentRequest = [c \in Calls |-> UNSET]
  /\ paymentId = [c \in Calls |-> UNSET]
  /\ result = [c \in Calls |-> UNSET]
  /\ response = [c \in Calls |-> NoResponse]
  /\ seen = [c \in Calls |-> [succeeded |-> FALSE, failed |-> FALSE]]

\* discovery beside a payment runs with the wallet seed configured
EngineInit == EngineStart({TRUE})

EngineNext ==
  \/ \E l \in Lookups, u \in Usernames, d \in domains : LookupInvokeUserNotFound(l, u, d)
  \/ \E l \in Lookups, u \in Usernames, d \in domains : LookupInvoke(l, u, d)
  \/ \E l \in Lookups : FormatAddresses(l)
  \/ \E l \in Lookups, r \in RateTables : BuildOptions(l, r)
  \/ \E l \in Lookups : BuildOptionsThrow(l)
  \/ \E l \in Lookups : BuildCurrencies(l)
  \/ \E l \in Lookups : BuildCurrenciesThrow(l)
  \/ \E a \in EnginePayArgs : InvokeUserNotFound(1, a)
  \/ \E a \in EnginePayArgs : Invoke(1, a)
  \/ GetAddresses(1)
  \/ CheckNonce(1)
  \/ DispatchAddressNotFound(1)
  \/ DispatchAddress(1)
  \/ DispatchMissingKey(1)
  \/ StartInitialize(1)
  \/ InitializeSucceeds(1)
  \/ InitializeFails(1)
  \/ CreateInvoiceSucceeds(1)
  \/ CreateInvoiceFails(1)
  \/ StoreRecord(1)
  \/ RatesThrow(1)
  \/ RatesNoMultiplier(1)
  \/ \E m \in Multipliers : Respond(1, m)

EngineSpec == EngineInit /\ [][EngineNext]_vars

(* ---------- generatePayResponse called once, on every kind of input ---------- *)

\* amounts around the multiples of the multipliers, zero included
PayAmounts == {0, 1, 999, 1000, 1999, 2000}

\* multipliers the rate source may answer with; 0 for none
PayMultipliers == {0, 1, 3, 1000}

AssetIdentifiers == {UNDEFINED, "BTC_LN"}

PayOnceArgs ==
  [username : Usernames, domain : DomainIds, amountMsats : PayAmounts,
   nonce : {"n1"}, currency : {UNDEFINED, "USD"},
   settlementLayer : {UNDEFINED, "ln", "spark", "polygon", "solana-mainnet"},
   assetIdentifier : AssetIdentifiers]

PayNext ==
  \/ \E a \in PayOnceArgs : InvokeUserNotFound(1, a)
  \/ \E a \in PayOnceArgs : Invoke(1, a)
  \/ GetAddresses(1)
  \/ CheckNonce(1)
  \/ DispatchAddressNotFound(1)
  \/ DispatchAddress(1)
  \/ DispatchMissingKey(1)
  \/ InitMissingSeed(1)
  \/ StartInitialize(1)
  \/ InitializeSucceeds(1)
  \/ InitializeFails(1)
  \/ CreateInvoiceSucceeds(1)
  \/ CreateInvoiceFails(1)
  \/ StoreRecord(1)
  \/ RatesThrow(1)
  \/ RatesNoMultiplier(1)
  \/ \E m \in PayMultipliers : Respond(1, m)

\* one call, with the wallet seed configured or missing
PayInit == EngineStart(BOOLEAN)

PaySpec == PayInit /\ [][PayNext]_vars

(* ---------- the route GET /.well-known/lnurlp/:username ---------- *)

\* the text of a query parameter, character by character
Digits == {"0", "1", "2", "3", "4", "5", "6", "7", "8", "9"}

DigitValue(ch) ==
  CASE ch = "0" -> 0 [] ch = "1" -> 1 [] ch = "2" -> 2 [] ch = "3" -> 3
    [] ch = "4" -> 4 [] ch = "5" -> 5 [] ch = "6" -> 6 [] ch = "7" -> 7
    [] ch = "8" -> 8 [] ch = "9" -> 9

\* the number of leading digits of the text
RECURSIVE LeadingDigits(_)
LeadingDigits(chars) ==
  IF chars = <<>> \/ Head(chars) \notin Digits THEN 0
  ELSE 1 + LeadingDigits(Tail(chars))

\* the value of a text of digits
RECURSIVE ValueOfDigits(_)
ValueOfDigits(chars) ==
  IF chars = <<>> THEN 0
  ELSE 10 * ValueOfDigits(SubSeq(chars, 1, Len(chars) - 1))
       + DigitValue(chars[Len(chars)])

\* parseInt(amount, 10): an optional sign, then the longest run of digits;
\* what follows the digits is ignored, and no digit at all gives NaN
ParseInt(chars) ==
  LET signed == chars # <<>> /\ Head(chars) \in {"-", "+"}
      body == IF signed THEN Tail(chars) ELSE chars
      n == LeadingDigits(body)
      magnitude == ValueOfDigits(SubSeq(body, 1, n))
  IN [isNaN |-> n = 0,
      value |-> IF signed /\ Head(chars) = "-" THEN 0 - magnitude ELSE magnitude]

\* isNaN(amountMsats) || amountMsats <= 0
InvalidAmount(chars) == ParseInt(chars).isNaN \/ ParseInt(chars).value <= 0

\* the values the schema of the route allows for settlementLayer
LayerEnum ==
  {"ln", "spark", "polygon", "ethereum", "arbitrum", "optimism", "base",
   "solana", "plasma"}

\* the validation of the query string against the schema fails
SchemaRejects(q) ==
  q.settlementLayer # UNDEFINED /\ q.settlementLayer \notin LayerEnum

\* domainService.getDomainByName(name)
getDomainByName(name) ==
  LET found == {d \in domains : d.domain = name}
  IN IF found = {} THEN NoDomain ELSE CHOOSE d \in found : TRUE

\* Math.random().toString(36).substring(2, 8): up to six characters
Suffixes == {"k3x9f0", "q7"}

\* the nonce the handler makes up: `uma_${Date.now()}_${suffix}`
GeneratedNonce(now, suffix) == "uma_" \o ToString(now) \o "_" \o suffix

PaymentNonce_asGiven(nonce, now, suffix) == nonce

\* nonce || `uma_${Date.now()}_${...}`
PaymentNonce(nonce, now, suffix) ==
  IF nonce \in {UNDEFINED, ""} THEN GeneratedNonce(now, suffix) ELSE nonce

\* the invocation of the engine that serves the request in the handler
Current == served + 1

\* the catch block: the status by the message of the error
StatusOfError(message) ==
  IF message = DUPLICATE_NONCE THEN 409
  ELSE IF message = ADDRESS_NOT_FOUND THEN 400
  ELSE 500

\* what the handler sends for the outcome of the engine
StatusOf(outcome) ==
  IF outcome = OK THEN 200
  ELSE IF outcome = USER_NOT_FOUND THEN 404
  ELSE StatusOfError(outcome)

\* the arguments the handler passes to generatePayResponse
PayArgsOf(h) ==
  [username |-> h.query.username, domain |-> h.domain._id,
   amountMsats |-> h.amountMsats, nonce |-> h.paymentNonce,
   currency |-> h.query.currency, settlementLayer |-> h.query.settlementLayer,
   assetIdentifier |-> h.query.assetIdentifier]

\* the reply is sent
Reply(status) == http' = [http EXCEPT !.stage = "replied", !.status = status]

\* a request whose query the schema does not accept is answered 400 before
\* the handler runs
ReceiveInvalidQuery(q) ==
  /\ http.stage = "idle"
  /\ SchemaRejects(q)
  /\ http' = [http EXCEPT !.stage = "replied", !.query = q, !.status = 400]
  /\ UNCHANGED <<stores, lookup, beside, paying>>

\* if (!amount): a lookup request; the domain lookup is issued
ReceiveLookup(q) ==
  /\ http.stage = "idle"
  /\ ~SchemaRejects(q)
  /\ q.amount = <<>>
  /\ http' = [http EXCEPT !.stage = "lookupDomain", !.query = q]
  /\ UNCHANGED <<stores, lookup, beside, paying>>

\* a pay request whose amount is refused
ReceivePayInvalidAmount(q) ==
  /\ http.stage = "idle"
  /\ ~SchemaRejects(q)
  /\ q.amount # <<>>
  /\ InvalidAmount(q.amount)
  /\ http' = [http EXCEPT !.stage = "replied", !.query = q, !.status = 400]
  /\ UNCHANGED <<stores, lookup, beside, paying>>

\* a pay request: the nonce is taken or made up, the amount parsed, and the
\* domain lookup is issued
ReceivePay(q, suffix) ==
  /\ http.stage = "idle"
  /\ ~SchemaRejects(q)
  /\ q.amount # <<>>
  /\ ~InvalidAmount(q.amount)
  /\ http' = [http EXCEPT !.stage = "payDomain", !.query = q,
                          !.paymentNonce = PaymentNonce(q.nonce, clock, suffix),
                          !.amountMsats = ParseInt(q.amount).value]
  /\ UNCHANGED <<stores, lookup, beside, paying>>

\* no domain of that name: 404
DomainNotFound ==
  /\ http.stage \in {"lookupDomain", "payDomain"}
  /\ getDomainByName(ToLowerCase(http.query.hostname)) = NoDomain
  /\ Reply(404)
  /\ UNCHANGED <<stores, lookup, beside, paying>>

\* the domain is found and the engine is called
DomainFound ==
  /\ http.stage \in {"lookupDomain", "payDomain"}
  /\ getDomainByName(ToLowerCase(http.query.hostname)) # NoDomain
  /\ http' = [http EXCEPT
       !.stage = IF http.stage = "lookupDomain" THEN "lookup" ELSE "pay",
       !.domain = getDomainByName(ToLowerCase(http.query.hostname))]
  /\ UNCHANGED <<stores, lookup, beside, paying>>

\* generateLookupResponse has returned or thrown
ReplyLookup ==
  /\ http.stage = "lookup"
  /\ lookup[1].pc = "done"
  /\ Reply(StatusOf(lookup[1].result))
  /\ UNCHANGED <<stores, lookup, beside, paying>>

\* generatePayResponse has returned or thrown
ReplyPay ==
  /\ http.stage = "pay"
  /\ pc[Current] = "done"
  /\ Reply(StatusOf(result[Current]))
  /\ UNCHANGED <<stores, lookup, beside, paying>>

\* the texts of the amount parameter: absent, and with and without digits
AmountTexts ==
  { <<>>, <<"0">>, <<"-", "5">>, <<"a", "b", "c">>, <<"1", "2", "a", "b", "c">>,
    <<"1", "0", "0", "0">> }

Queries ==
  [username : Usernames, hostname : {"pay.example", "other.example"},
   amount : AmountTexts, nonce : {UNDEFINED, "n1"}, currency : {"USD"},
   settlementLayer : {UNDEFINED, "ln", "polygon", "base", "POLYGON"},
   assetIdentifier : {UNDEFINED}]

\* the record of an earlier payment that carried the nonce n1
UsedRecord ==
  [_id |-> "p1", user_id |-> "u1", nonce |-> "n1", amount_msats |-> 1000,
   currency |-> "USD", settlement_layer |-> UNDEFINED,
   asset_identifier |-> UNDEFINED, invoice |-> "lnbc0"]

ServerInit ==
  /\ users = InitialUsers
  /\ chain_addresses = InitialAddresses
  /\ domains = InitialDomains
  /\ lookup = [l \in Lookups |-> NoLookup]
  /\ http = NoRequest
  /\ RestIdle
  /\ payment_requests \in {{}, {UsedRecord}}
  /\ sparkWallet = UNDEFINED
  /\ isInitializing = FALSE
  /\ sparkSeed \in BOOLEAN
  /\ initCalls = 0
  /\ initDone = 0
  /\ pc = [c \in Calls |-> "idle"]
  /\ args = [c \in Calls |-> NoArgs]
  /\ user = [c \in Calls |-> NoUser]
  /\ userAddresses = [c \in Calls |-> {}]
  /\ existingPayment = [c \in Calls |-> NoPayment]
  /\ wallet = [c \in Calls |-> UNSET]
  /\ sdkCalls = [c \in Calls |-> {}]
  /\ paymentRequest = [c \in Calls |-> UNSET]
  /\ paymentId = [c \in Calls |-> UNSET]
  /\ result = [c \in Calls |-> UNSET]
  /\ response = [c \in Calls |-> NoResponse]
  /\ seen = [c \in Calls |-> [succeeded |-> FALSE, failed |-> FALSE]]

ServerNext ==
  \/ \E q \in Queries : ReceiveInvalidQuery(q)
  \/ \E q \in Queries : ReceiveLookup(q)
  \/ \E q \in Queries : ReceivePayInvalidAmount(q)
  \/ \E q \in Queries, suffix \in Suffixes : ReceivePay(q, suffix)
  \/ DomainNotFound
  \/ DomainFound
  \/ ReplyLookup
  \/ ReplyPay
  \/ http.stage = "lookup" /\ LookupInvokeUserNotFound(1, http.query.username, http.domain)
  \/ http.stage = "lookup" /\ LookupInvoke(1, http.query.username, http.domain)
  \/ FormatAddresses(1)
  \/ \E r \in RateTables : BuildOptions(1, r)
  \/ BuildOptionsThrow(1)
  \/ BuildCurrencies(1)
  \/ BuildCurrenciesThrow(1)
  \/ http.stage = "pay" /\ InvokeUserNotFound(1, PayArgsOf(http))
  \/ http.stage = "pay" /\ Invoke(1, PayArgsOf(http))
  \/ GetAddresses(1)
  \/ CheckNonce(1)
  \/ RejectDuplicate(1)
  \/ DispatchAddressNotFound(1)
  \/ DispatchAddress(1)
  \/ DispatchMissingKey(1)
  \/ InitMissingSeed(1)
  \/ StartInitialize(1)
  \/ InitializeSucceeds(1)
  \/ InitializeFails(1)
  \/ CreateInvoiceSucceeds(1)
  \/ CreateInvoiceFails(1)
  \/ StoreRecord(1)
  \/ RatesThrow(1)
  \/ RatesNoMultiplier(1)
  \/ \E m \in Multipliers : Respond(1, m)

ServerSpec == ServerInit /\ [][ServerNext]_vars


(* ---------- the route serving two tenants ---------- *)

\* users collection of two tenants: alice is registered under both, with a
\* settlement-identity key under the first only; bob under the first only
TenantUsers ==
  { [_id |-> "u1", username |-> "alice", domain_id |-> "d1",
     spark_public_key |-> "02aa", is_active |-> TRUE],
    [_id |-> "u2", username |-> "bob", domain_id |-> "d1",
     spark_public_key |-> NULL, is_active |-> TRUE],
    [_id |-> "u3", username |-> "alice", domain_id |-> "d2",
     spark_public_key |-> NULL, is_active |-> TRUE] }

\* each alice has a polygon address of her own; only the second has one on base
TenantAddresses ==
  { [user_id |-> "u1", chain_name |-> "spark", address |-> "02aa", is_active |-> TRUE],
    [user_id |-> "u1", chain_name |-> "polygon", address |-> "0xA1", is_active |-> TRUE],
    [user_id |-> "u2", chain_name |-> "polygon", address |-> "0xB2", is_active |-> TRUE],
    [user_id |-> "u3", chain_name |-> "polygon", address |-> "0xC3", is_active |-> TRUE],
    [user_id |-> "u3", chain_name |-> "base", address |-> "0xC4", is_active |-> TRUE] }

TenantDomains ==
  { [_id |-> id, domain |-> IF id = "d1" THEN "pay.example" ELSE "other.example",
     currency_settings |->
       [code \in {"BTC", "USD", "EUR"} |->
          [active |-> code # "EUR", minSendable |-> 1, maxSendable |-> 2000]]] :
    id \in {"d1", "d2"} }

\* requests under the two tenants and under a host that is no tenant
TenantQueries ==
  [username : {"alice", "bob"},
   hostname : {"pay.example", "other.example", "gone.example"},
   amount : { <<>>, <<"0">>, <<"1", "0", "0", "0">> }, nonce : {UNDEFINED, "n1"},
   currency : {"USD"}, settlementLayer : {UNDEFINED, "polygon", "base", "POLYGON"},
   assetIdentifier : {UNDEFINED}]

TenantInit ==
  /\ users = TenantUsers
  /\ chain_addresses = TenantAddresses
  /\ domains = TenantDomains
  /\ lookup = [l \in Lookups |-> NoLookup]
  /\ http = NoRequest
  /\ RestIdle
  /\ payment_requests \in {{}, {UsedRecord}}
  /\ sparkWallet = UNDEFINED
  /\ isInitializing = FALSE
  /\ sparkSeed \in BOOLEAN
  /\ initCalls = 0
  /\ initDone = 0
  /\ pc = [c \in Calls |-> "idle"]
  /\ args = [c \in Calls |-> NoArgs]
  /\ user = [c \in Calls |-> NoUser]
  /\ userAddresses = [c \in Calls |-> {}]
  /\ existingPayment = [c \in Calls |-> NoPayment]
  /\ wallet = [c \in Calls |-> UNSET]
  /\ sdkCalls = [c \in Calls |-> {}]
  /\ paymentRequest = [c \in Calls |-> UNSET]
  /\ paymentId = [c \in Calls |-> UNSET]
  /\ result = [c \in Calls |-> UNSET]
  /\ response = [c \in Calls |-> NoResponse]
  /\ seen = [c \in Calls |-> [succeeded |-> FALSE, failed |-> FALSE]]

TenantNext ==
  \/ \E q \in TenantQueries : ReceiveInvalidQuery(q)
  \/ \E q \in TenantQueries : ReceiveLookup(q)
  \/ \E q \in TenantQueries : ReceivePayInvalidAmount(q)
  \/ \E q \in TenantQueries, suffix \in Suffixes : ReceivePay(q, suffix)
  \/ DomainNotFound
  \/ DomainFound
  \/ ReplyLookup
  \/ ReplyPay
  \/ http.stage = "lookup" /\ LookupInvokeUserNotFound(1, http.query.username, http.domain)
  \/ http.stage = "lookup" /\ LookupInvoke(1, http.query.username, http.domain)
  \/ FormatAddresses(1)
  \/ \E r \in RateTables : BuildOptions(1, r)
  \/ BuildOptionsThrow(1)
  \/ BuildCurrencies(1)
  \/ BuildCurrenciesThrow(1)
  \/ http.stage = "pay" /\ InvokeUserNotFound(1, PayArgsOf(http))
  \/ http.stage = "pay" /\ Invoke(1, PayArgsOf(http))
  \/ GetAddresses(1)
  \/ CheckNonce(1)
  \/ RejectDuplicate(1)
  \/ DispatchAddressNotFound(1)
  \/ DispatchAddress(1)
  \/ DispatchMissingKey(1)
  \/ InitMissingSeed(1)
  \/ StartInitialize(1)
  \/ InitializeSucceeds(1)
  \/ InitializeFails(1)
  \/ CreateInvoiceSucceeds(1)
  \/ CreateInvoiceFails(1)
  \/ StoreRecord(1)
  \/ RatesThrow(1)
  \/ RatesNoMultiplier(1)
  \/ \E m \in Multipliers : Respond(1, m)

TenantSpec == TenantInit /\ [][TenantNext]_vars

(* ---------- UserService: createUser, addresses, deleteUser ---------- *)

ALREADY_EXISTS == "User already exists in this domain"
INVALID_USERNAME == "Invalid username format"
DUPLICATE_KEY == "E11000 duplicate key error"
NO_SUCH_USER == "User not found"

\* String.prototype.trim on the addresses of the model
Trim(s) == IF s = "  " THEN "" ELSE s

\* /^[a-z0-9_-]{1,64}$/.test(username.toLowerCase()) on the usernames of the model
isValidUsername(username) == ToLowerCase(username) \notin {"", "a b"}

\* users.findOne({ _id: userId })
getUserById(userId) ==
  LET found == {u \in users : u._id = userId}
  IN IF found = {} THEN NoUser ELSE CHOOSE u \in found : TRUE

\* the uniqueness constraint of the record store on (username, tenant)
UsernameTaken(username, domainId) ==
  \E u \in users : u.username = username /\ u.domain_id = domainId

\* the _id the store gives to the user an invocation inserts
NewUserId(o) == "n" \o ToString(o)

\* the entries of options.addresses that createUser keeps: address && address.trim()
KeptEntries(addresses) ==
  SelectSeq(addresses, LAMBDA e : e.address # NULL /\ Trim(e.address) # "")

\* the documents createUser collects for insertMany
AddressInserts(userId, addresses) ==
  { [user_id |-> userId, chain_name |-> ToLowerCase(KeptEntries(addresses)[i].chainName),
     address |-> Trim(KeptEntries(addresses)[i].address), is_active |-> TRUE] :
    i \in 1..Len(KeptEntries(addresses)) }

\* the documents of the user with the chain name given to a filter
MatchingRows(userId, chainName) ==
  {r \in chain_addresses : r.user_id = userId /\ r.chain_name = ToLowerCase(chainName)}

\* chain_addresses.updateOne(filter, { $set, $setOnInsert }, { upsert: true }):
\* one matching document is updated, or a document is inserted when none
\* matches (documents are told apart by their content)
Upsert(userId, chainName, address) ==
  IF MatchingRows(userId, chainName) = {}
  THEN chain_addresses \cup
         { [user_id |-> userId, chain_name |-> ToLowerCase(chainName),
            address |-> Trim(address), is_active |-> TRUE] }
  ELSE LET row == CHOOSE r \in MatchingRows(userId, chainName) : TRUE
       IN (chain_addresses \ {row}) \cup
            { [row EXCEPT !.address = Trim(address), !.is_active = TRUE] }

\* chain_addresses.deleteOne(filter): one matching document is deleted
DeleteOne(userId, chainName) ==
  IF MatchingRows(userId, chainName) = {} THEN chain_addresses
  ELSE chain_addresses \ {CHOOSE r \in MatchingRows(userId, chainName) : TRUE}

\* an invocation arrives (invocations are numbered in their order of arrival)
Arrives(o) ==
  /\ mgmt[o].pc = "idle"
  /\ \A n \in Ops : n < o => mgmt[n].pc # "idle"

\* the invocation ends with a result or an error
Ends(o, outcome) ==
  mgmt' = [mgmt EXCEPT ![o] = [@ EXCEPT !.pc = "done", !.result = outcome]]

\* createUser: the username does not pass isValidUsername
CreateUserInvalid(o, options) ==
  /\ Arrives(o)
  /\ ~isValidUsername(options.username)
  /\ mgmt' = [mgmt EXCEPT ![o] =
       [@ EXCEPT !.op = "createUser", !.pc = "done",
                 !.username = options.username, !.domainId = options.domainId,
                 !.addresses = options.addresses, !.result = INVALID_USERNAME]]
  /\ UNCHANGED <<stores, lookup, http, admin, apiKey, clock, served, paying>>

\* createUser: the username is valid and the lookup of an existing user is issued
CreateUserBegin(o, options) ==
  /\ Arrives(o)
  /\ isValidUsername(options.username)
  /\ mgmt' = [mgmt EXCEPT ![o] =
       [@ EXCEPT !.op = "createUser", !.pc = "check",
                 !.username = options.username, !.domainId = options.domainId,
                 !.addresses = options.addresses,
                 !.existed = UsernameTaken(ToLowerCase(options.username),
                                           options.domainId)]]
  /\ UNCHANGED <<stores, lookup, http, admin, apiKey, clock, served, paying>>

\* the lookup, by the username as it was given, finds a user
CreateUserExists(o) ==
  /\ mgmt[o].op = "createUser" /\ mgmt[o].pc = "check"
  /\ getUserByUsernameAndDomain(mgmt[o].username, mgmt[o].domainId) # NoUser
  /\ Ends(o, ALREADY_EXISTS)
  /\ UNCHANGED <<stores, lookup, http, admin, apiKey, clock, served, paying>>

\* the lookup finds none and the insertion of the user is issued
CreateUserCheck(o) ==
  /\ mgmt[o].op = "createUser" /\ mgmt[o].pc = "check"
  /\ getUserByUsernameAndDomain(mgmt[o].username, mgmt[o].domainId) = NoUser
  /\ mgmt' = [mgmt EXCEPT ![o] = [@ EXCEPT !.pc = "insert"]]
  /\ UNCHANGED <<stores, lookup, http, admin, apiKey, clock, served, paying>>

\* the insertion of the lower-cased username is refused by the store
CreateUserInsertRejected(o) ==
  /\ mgmt[o].op = "createUser" /\ mgmt[o].pc = "insert"
  /\ UsernameTaken(ToLowerCase(mgmt[o].username), mgmt[o].domainId)
  /\ Ends(o, DUPLICATE_KEY)
  /\ UNCHANGED <<stores, lookup, http, admin, apiKey, clock, served, paying>>

\* the user is inserted under the lower-cased username; with addresses to
\* store, insertMany is issued
CreateUserInsert(o) ==
  /\ mgmt[o].op = "createUser" /\ mgmt[o].pc = "insert"
  /\ ~UsernameTaken(ToLowerCase(mgmt[o].username), mgmt[o].domainId)
  /\ users' = users \cup
       { [_id |-> NewUserId(o), username |-> ToLowerCase(mgmt[o].username),
          domain_id |-> mgmt[o].domainId, spark_public_key |-> NULL,
          is_active |-> TRUE] }
  /\ mgmt' = [mgmt EXCEPT ![o] =
       [@ EXCEPT !.userId = NewUserId(o),
                 !.pc = IF Len(KeptEntries(mgmt[o].addresses)) > 0
                        THEN "addresses" ELSE "done",
                 !.result = IF Len(KeptEntries(mgmt[o].addresses)) > 0
                            THEN UNSET ELSE OK]]
  /\ UNCHANGED <<chain_addresses, domains, lookup, http, admin, apiKey, clock,
                 served, paying>>

\* insertMany stores the collected address documents
CreateUserAddresses(o) ==
  /\ mgmt[o].op = "createUser" /\ mgmt[o].pc = "addresses"
  /\ chain_addresses' =
       chain_addresses \cup AddressInserts(mgmt[o].userId, mgmt[o].addresses)
  /\ Ends(o, OK)
  /\ UNCHANGED <<users, domains, lookup, http, admin, apiKey, clock, served, paying>>

\* addUserAddress: one upsert
AddUserAddress(o, userId, chainName, address) ==
  /\ Arrives(o)
  /\ chain_addresses' = Upsert(userId, chainName, address)
  /\ mgmt' = [mgmt EXCEPT ![o] =
       [@ EXCEPT !.op = "addUserAddress", !.pc = "done", !.userId = userId,
                 !.addresses = << [chainName |-> chainName, address |-> address] >>,
                 !.result = OK]]
  /\ UNCHANGED <<users, domains, lookup, http, admin, apiKey, clock, served, paying>>

\* removeUserAddress: one deleteOne
RemoveUserAddress(o, userId, chainName) ==
  /\ Arrives(o)
  /\ chain_addresses' = DeleteOne(userId, chainName)
  /\ mgmt' = [mgmt EXCEPT ![o] =
       [@ EXCEPT !.op = "removeUserAddress", !.pc = "done", !.userId = userId,
                 !.addresses = << [chainName |-> chainName, address |-> NULL] >>,
                 !.result = OK]]
  /\ UNCHANGED <<users, domains, lookup, http, admin, apiKey, clock, served, paying>>

\* updateUser: no user with the id
UpdateUserNotFound(o, userId, addresses) ==
  /\ Arrives(o)
  /\ getUserById(userId) = NoUser
  /\ mgmt' = [mgmt EXCEPT ![o] =
       [@ EXCEPT !.op = "updateUser", !.pc = "done", !.userId = userId,
                 !.addresses = addresses, !.result = NO_SUCH_USER]]
  /\ UNCHANGED <<stores, lookup, http, admin, apiKey, clock, served, paying>>

\* updateUser: the user is found and the loop over the entries begins
UpdateUserBegin(o, userId, addresses) ==
  /\ Arrives(o)
  /\ getUserById(userId) # NoUser
  /\ mgmt' = [mgmt EXCEPT ![o] =
       [@ EXCEPT !.op = "updateUser", !.pc = "entries", !.userId = userId,
                 !.addresses = addresses]]
  /\ UNCHANGED <<stores, lookup, http, admin, apiKey, clock, served, paying>>

\* one turn of the loop: null or '' deletes the address, anything else is
\* upserted trimmed; after the last entry the user document is touched and
\* the invocation returns
UpdateUserEntry(o) ==
  /\ mgmt[o].op = "updateUser" /\ mgmt[o].pc = "entries"
  /\ mgmt[o].addresses # <<>>
  /\ LET entry == Head(mgmt[o].addresses)
     IN chain_addresses' =
          IF entry.address = NULL \/ entry.address = ""
          THEN DeleteOne(mgmt[o].userId, entry.chainName)
          ELSE Upsert(mgmt[o].userId, entry.chainName, entry.address)
  /\ mgmt' = [mgmt EXCEPT ![o] =
       [@ EXCEPT !.addresses = Tail(mgmt[o].addresses),
                 !.pc = IF Len(mgmt[o].addresses) = 1 THEN "done" ELSE "entries",
                 !.result = IF Len(mgmt[o].addresses) = 1 THEN OK ELSE UNSET]]
  /\ UNCHANGED <<users, domains, lookup, http, admin, apiKey, clock, served, paying>>

\* deleteUser: no user with the id
DeleteUserNotFound(o, userId) ==
  /\ Arrives(o)
  /\ getUserById(userId) = NoUser
  /\ mgmt' = [mgmt EXCEPT ![o] =
       [@ EXCEPT !.op = "deleteUser", !.pc = "done", !.userId = userId,
                 !.result = NO_SUCH_USER]]
  /\ UNCHANGED <<stores, lookup, http, admin, apiKey, clock, served, paying>>

\* deleteUser: the user is found and the audit entry is written
DeleteUserBegin(o, userId) ==
  /\ Arrives(o)
  /\ getUserById(userId) # NoUser
  /\ mgmt' = [mgmt EXCEPT ![o] =
       [@ EXCEPT !.op = "deleteUser", !.pc = "delete", !.userId = userId]]
  /\ UNCHANGED <<stores, lookup, http, admin, apiKey, clock, served, paying>>

DeleteUserRemove_cascading(o) ==
  /\ mgmt[o].op = "deleteUser" /\ mgmt[o].pc = "delete"
  /\ users' = {u \in users : u._id # mgmt[o].userId}
  /\ payment_requests' = {r \in payment_requests : r.user_id # mgmt[o].userId}
  /\ Ends(o, OK)
  /\ UNCHANGED <<chain_addresses, domains, lookup, http, admin, apiKey, clock,
                 served, service, pc, args, user, userAddresses, existingPayment,
                 wallet, sdkCalls, paymentRequest, paymentId, result, response,
                 seen>>

\* users.deleteOne({ _id: userId }): the user document goes, and nothing else
DeleteUserRemove(o) ==
  /\ mgmt[o].op = "deleteUser" /\ mgmt[o].pc = "delete"
  /\ users' = {u \in users : u._id # mgmt[o].userId}
  /\ Ends(o, OK)
  /\ UNCHANGED <<chain_addresses, domains, lookup, http, admin, apiKey, clock,
                 served, paying>>

(* ---------- user management on its own ---------- *)

\* every collection and every invocation at rest, over the given stores
StartAs(u, a, d, p, seeds, keys) ==
  /\ users = u
  /\ chain_addresses = a
  /\ domains = d
  /\ lookup = [l \in Lookups |-> NoLookup]
  /\ http = NoRequest
  /\ Resting(keys)
  /\ payment_requests \in p
  /\ sparkWallet = UNDEFINED
  /\ isInitializing = FALSE
  /\ sparkSeed \in seeds
  /\ initCalls = 0
  /\ initDone = 0
  /\ pc = [c \in Calls |-> "idle"]
  /\ args = [c \in Calls |-> NoArgs]
  /\ user = [c \in Calls |-> NoUser]
  /\ userAddresses = [c \in Calls |-> {}]
  /\ existingPayment = [c \in Calls |-> NoPayment]
  /\ wallet = [c \in Calls |-> UNSET]
  /\ sdkCalls = [c \in Calls |-> {}]
  /\ paymentRequest = [c \in Calls |-> UNSET]
  /\ paymentId = [c \in Calls |-> UNSET]
  /\ result = [c \in Calls |-> UNSET]
  /\ response = [c \in Calls |-> NoResponse]
  /\ seen = [c \in Calls |-> [succeeded |-> FALSE, failed |-> FALSE]]

\* the same with no API key configured
StartWith(u, a, d, p, seeds) == StartAs(u, a, d, p, seeds, {UNDEFINED})

\* two keys that differ in case only, and a blank address
CollidingAddresses ==
  << [chainName |-> "Polygon", address |-> "0xC1"],
     [chainName |-> "polygon", address |-> "0xC2"],
     [chainName |-> "base", address |-> "  "] >>

\* createUser for a name that exists, the same name in another case, a new
\* name and a name that is not valid
CreateUserOptions ==
  [username : {"alice", "Alice", "carol", "a b"}, domainId : DomainIds,
   addresses : {<<>>, CollidingAddresses}]

\* the addresses option of updateUser: an address deleted; an address set and
\* another set to blanks
UpdateUserAddresses ==
  { << [chainName |-> "polygon", address |-> NULL] >>,
    << [chainName |-> "POLYGON", address |-> "0xE1"],
       [chainName |-> "spark", address |-> "  "] >> }

UserInit == StartWith(InitialUsers, InitialAddresses, InitialDomains, {{}}, {TRUE})

UserNext ==
  \/ \E o \in Ops, options \in CreateUserOptions : CreateUserInvalid(o, options)
  \/ \E o \in Ops, options \in CreateUserOptions : CreateUserBegin(o, options)
  \/ \E o \in Ops : CreateUserExists(o)
  \/ \E o \in Ops : CreateUserCheck(o)
  \/ \E o \in Ops : CreateUserInsertRejected(o)
  \/ \E o \in Ops : CreateUserInsert(o)
  \/ \E o \in Ops : CreateUserAddresses(o)
  \/ \E o \in Ops : AddUserAddress(o, "u1", "POLYGON", "0xD1")
  \/ \E o \in Ops : RemoveUserAddress(o, "u1", "POLYGON")
  \/ \E o \in Ops, a \in UpdateUserAddresses : UpdateUserNotFound(o, "u9", a)
  \/ \E o \in Ops, a \in UpdateUserAddresses : UpdateUserBegin(o, "u1", a)
  \/ \E o \in Ops : UpdateUserEntry(o)

UserSpec == UserInit /\ [][UserNext]_vars

(* ---------- the admin routes ---------- *)

POST_DOMAINS == "POST /domains"
GET_USERS == "GET /users/:domainId"
POST_USERS == "POST /users/:domainId"
DELETE_USER == "DELETE /users/:domainId/:username"
GET_DOMAIN == "GET /domain/:domainId"
DELETE_DOMAIN == "DELETE /domain/:domainId"

AdminRoutes ==
  {POST_DOMAINS, GET_USERS, POST_USERS, DELETE_USER, GET_DOMAIN, DELETE_DOMAIN}

\* the routes whose schema has a body with required properties
BodyRoutes == {POST_DOMAINS, POST_USERS}

\* the request as it arrives: 'valid' tells whether its body passes the
\* schema of the route; the routes without a body schema take any request
AdminRequests ==
  {q \in [route : AdminRoutes,
          authorization : {UNDEFINED, "Basic k1", "Bearer k1", "Bearer k2"},
          valid : BOOLEAN, domainId : {"d1", "d9"},
          username : {"alice", "Alice", "carol"},
          addresses : {<<>>, << [chainName |-> "Polygon", address |-> "0xC1"] >>},
          domain : {"pay.example", "new.example"}] :
     /\ q.route \notin BodyRoutes => q.valid
     /\ q.route # POST_USERS => q.addresses = <<>>
     /\ q.route \notin {POST_USERS, DELETE_USER} => q.username = "alice"
     /\ q.route # POST_DOMAINS => q.domain = "pay.example"
     /\ q.route = POST_DOMAINS => q.domainId = "d1"}

\* !authHeader || !authHeader.startsWith('Bearer ')
MissingBearer(authHeader) ==
  \/ authHeader \in {UNDEFINED, ""}
  \/ Len(authHeader) < 7
  \/ SubSeq(authHeader, 1, 7) # "Bearer "

\* authHeader.substring(7)
ProvidedKey(authHeader) == SubSeq(authHeader, 8, Len(authHeader))

\* !API_KEY
NotConfigured(key) == key \in {UNDEFINED, ""}

KeyAccepted_any(providedKey, key) == TRUE

\* providedKey !== API_KEY, negated
KeyAccepted(providedKey, key) == providedKey = key

\* the request is past the validation of the body against the schema of the
\* route, which comes before the preHandler
PastValidation ==
  /\ admin.stage = "received"
  /\ admin.route \in BodyRoutes => admin.valid

\* the reply is sent before the handler was reached
AdminRefuse(code) == admin' = [admin EXCEPT !.stage = "refused", !.status = code]

\* the handler sends its reply
AdminReply(code) == admin' = [admin EXCEPT !.stage = "replied", !.status = code]

\* a request arrives at an admin route
AdminReceive(q) ==
  /\ admin.stage = "idle"
  /\ admin' = [stage |-> "received", route |-> q.route,
               authorization |-> q.authorization, valid |-> q.valid,
               domainId |-> q.domainId, username |-> q.username,
               addresses |-> q.addresses, domain |-> q.domain, status |-> 0]
  /\ UNCHANGED <<stores, lookup, http, mgmt, apiKey, clock, served, paying>>

\* the body does not pass the schema: 400, before the preHandler
AdminSchemaRejects ==
  /\ admin.stage = "received"
  /\ admin.route \in BodyRoutes /\ ~admin.valid
  /\ AdminRefuse(400)
  /\ UNCHANGED <<stores, lookup, http, mgmt, apiKey, clock, served, paying>>

\* authenticateAdmin: no header, or one that does not start with 'Bearer '
AuthMissingHeader ==
  /\ PastValidation
  /\ MissingBearer(admin.authorization)
  /\ AdminRefuse(401)
  /\ UNCHANGED <<stores, lookup, http, mgmt, apiKey, clock, served, paying>>

\* authenticateAdmin: API_KEY is not configured
AuthNotConfigured ==
  /\ PastValidation
  /\ ~MissingBearer(admin.authorization)
  /\ NotConfigured(apiKey)
  /\ AdminRefuse(500)
  /\ UNCHANGED <<stores, lookup, http, mgmt, apiKey, clock, served, paying>>

\* authenticateAdmin: the key of the header is not API_KEY
AuthWrongKey ==
  /\ PastValidation
  /\ ~MissingBearer(admin.authorization)
  /\ ~NotConfigured(apiKey)
  /\ ~KeyAccepted(ProvidedKey(admin.authorization), apiKey)
  /\ AdminRefuse(403)
  /\ UNCHANGED <<stores, lookup, http, mgmt, apiKey, clock, served, paying>>

\* authenticateAdmin returns without a reply and the handler is entered
AuthPasses ==
  /\ PastValidation
  /\ ~MissingBearer(admin.authorization)
  /\ ~NotConfigured(apiKey)
  /\ KeyAccepted(ProvidedKey(admin.authorization), apiKey)
  /\ admin' = [admin EXCEPT !.stage = "handler"]
  /\ UNCHANGED <<stores, lookup, http, mgmt, apiKey, clock, served, paying>>

\* the handlers answer one request at a time: they call UserService in
\* invocation 1

\* domainService.createDomain: the domain is served already
AdminCreateDomainExists ==
  /\ admin.stage = "handler" /\ admin.route = POST_DOMAINS
  /\ \E d \in domains : d.domain = admin.domain
  /\ AdminReply(409)
  /\ UNCHANGED <<stores, lookup, http, mgmt, apiKey, clock, served, paying>>

\* domainService.createDomain: the domain is registered
AdminCreateDomain ==
  /\ admin.stage = "handler" /\ admin.route = POST_DOMAINS
  /\ ~ \E d \in domains : d.domain = admin.domain
  /\ domains' = domains \cup
       { [_id |-> "d9", domain |-> admin.domain,
          currency_settings |->
            [code \in {"BTC", "USD", "EUR"} |->
               [active |-> code = "BTC", minSendable |-> 1, maxSendable |-> 2000]]] }
  /\ AdminReply(201)
  /\ UNCHANGED <<users, chain_addresses, lookup, http, mgmt, apiKey, clock, served,
                 paying>>

\* GET /users/:domainId
AdminListUsers ==
  /\ admin.stage = "handler" /\ admin.route = GET_USERS
  /\ AdminReply(200)
  /\ UNCHANGED <<stores, lookup, http, mgmt, apiKey, clock, served, paying>>

\* POST /users/:domainId: userService.createUser is called with the body
AdminCreateUserCall ==
  /\ admin.stage = "handler" /\ admin.route = POST_USERS
  /\ CreateUserBegin(1, [username |-> admin.username, domainId |-> admin.domainId,
                         addresses |-> admin.addresses])

\* createUser has returned or thrown: 201, 409 for a message with 'duplicate'
\* in it, 500 for any other
AdminCreateUserReply ==
  /\ admin.stage = "handler" /\ admin.route = POST_USERS
  /\ mgmt[1].pc = "done"
  /\ AdminReply(IF mgmt[1].result = OK THEN 201
                ELSE IF mgmt[1].result = DUPLICATE_KEY THEN 409 ELSE 500)
  /\ UNCHANGED <<stores, lookup, http, mgmt, apiKey, clock, served, paying>>

\* DELETE /users/:domainId/:username: no such user in the domain
AdminDeleteUserNotFound ==
  /\ admin.stage = "handler" /\ admin.route = DELETE_USER
  /\ mgmt[1].pc = "idle"
  /\ getUserByUsernameAndDomain(admin.username, admin.domainId) = NoUser
  /\ AdminReply(404)
  /\ UNCHANGED <<stores, lookup, http, mgmt, apiKey, clock, served, paying>>

\* the user is found and userService.deleteUser is called with its _id
AdminDeleteUserCall ==
  /\ admin.stage = "handler" /\ admin.route = DELETE_USER
  /\ getUserByUsernameAndDomain(admin.username, admin.domainId) # NoUser
  /\ DeleteUserBegin(1, getUserByUsernameAndDomain(admin.username, admin.domainId)._id)

\* deleteUser has returned or thrown
AdminDeleteUserReply ==
  /\ admin.stage = "handler" /\ admin.route = DELETE_USER
  /\ mgmt[1].pc = "done"
  /\ AdminReply(IF mgmt[1].result = OK THEN 200 ELSE 500)
  /\ UNCHANGED <<stores, lookup, http, mgmt, apiKey, clock, served, paying>>

\* GET /domain/:domainId
AdminGetDomain ==
  /\ admin.stage = "handler" /\ admin.route = GET_DOMAIN
  /\ AdminReply(IF \E d \in domains : d._id = admin.domainId THEN 200 ELSE 404)
  /\ UNCHANGED <<stores, lookup, http, mgmt, apiKey, clock, served, paying>>

\* DELETE /domain/:domainId: the domain goes, and its users and their
\* addresses with it
AdminDeleteDomain ==
  /\ admin.stage = "handler" /\ admin.route = DELETE_DOMAIN
  /\ domains' = {d \in domains : d._id # admin.domainId}
  /\ users' = {u \in users : u.domain_id # admin.domainId}
  /\ chain_addresses' =
       {a \in chain_addresses :
          \A u \in users : u._id = a.user_id => u.domain_id # admin.domainId}
  /\ AdminReply(200)
  /\ UNCHANGED <<lookup, http, mgmt, apiKey, clock, served, paying>>

AdminInit ==
  StartAs(InitialUsers, InitialAddresses, InitialDomains, {{}}, {TRUE},
          {UNDEFINED, "k1"})

AdminNext ==
  \/ \E q \in AdminRequests : AdminReceive(q)
  \/ AdminSchemaRejects
  \/ AuthMissingHeader
  \/ AuthNotConfigured
  \/ AuthWrongKey
  \/ AuthPasses
  \/ AdminCreateDomainExists
  \/ AdminCreateDomain
  \/ AdminListUsers
  \/ AdminCreateUserCall
  \/ CreateUserExists(1)
  \/ CreateUserCheck(1)
  \/ CreateUserInsertRejected(1)
  \/ CreateUserInsert(1)
  \/ CreateUserAddresses(1)
  \/ AdminCreateUserReply
  \/ AdminDeleteUserNotFound
  \/ AdminDeleteUserCall
  \/ DeleteUserRemove(1)
  \/ AdminDeleteUserReply
  \/ AdminGetDomain
  \/ AdminDeleteDomain

AdminSpec == AdminInit /\ [][AdminNext]_vars

(* ---------- the route serving requests one after another ---------- *)

\* highest reading of the clock
MaxClock == 1

\* time passes between two requests
Tick ==
  /\ http.stage = "idle"
  /\ clock < MaxClock
  /\ clock' = clock + 1
  /\ UNCHANGED <<stores, lookup, http, mgmt, admin, apiKey, served, paying>>

\* the reply has gone out and the route is ready for the next request, which
\* the next invocation of the engine will serve
NextRequest ==
  /\ http.stage = "replied"
  /\ Current < NumCalls
  /\ http' = NoRequest
  /\ served' = served + 1
  /\ UNCHANGED <<stores, lookup, mgmt, admin, apiKey, clock, paying>>

\* pay requests for alice over a chain she has an address on and over one she
\* has none on, with a nonce and without one
SequenceQueries ==
  [username : {"alice"}, hostname : {"pay.example"}, amount : {<<"1", "0", "0", "0">>},
   nonce : {UNDEFINED, "n1"}, currency : {"USD"},
   settlementLayer : {"polygon", "base"}, assetIdentifier : {UNDEFINED}]

SequenceInit ==
  StartWith(InitialUsers, InitialAddresses, InitialDomains, {{}}, {TRUE})

SequenceNext ==
  \/ Tick
  \/ \E q \in SequenceQueries, suffix \in Suffixes : ReceivePay(q, suffix)
  \/ DomainFound
  \/ http.stage = "pay" /\ Invoke(Current, PayArgsOf(http))
  \/ GetAddresses(Current)
  \/ CheckNonce(Current)
  \/ RejectDuplicate(Current)
  \/ DispatchAddressNotFound(Current)
  \/ DispatchAddress(Current)
  \/ StoreRecord(Current)
  \/ RatesThrow(Current)
  \/ RatesNoMultiplier(Current)
  \/ \E m \in Multipliers : Respond(Current, m)
  \/ ReplyPay
  \/ NextRequest

SequenceSpec == SequenceInit /\ [][SequenceNext]_vars

(* ---------- the engine beside user management ---------- *)

\* a pay request for alice over a chain, with the nonce of the earlier record
RecordPayArgs ==
  [username : {"alice"}, domain : DomainIds, amountMsats : Amounts, nonce : {"n1"},
   currency : CurrencyArgs, settlementLayer : {"POLYGON"}, assetIdentifier : AssetArgs]

\* createUser for a new name, with an address
RecordUserOptions ==
  [username : {"carol"}, domainId : DomainIds,
   addresses : {<< [chainName |-> "polygon", address |-> "0xC1"] >>}]

\* the store of payment requests is empty or holds the record of an earlier
\* payment to alice
RecordInit ==
  StartWith(InitialUsers, InitialAddresses, InitialDomains, {{}, {UsedRecord}}, {TRUE})

RecordNext ==
  \/ \E a \in RecordPayArgs : InvokeUserNotFound(1, a)
  \/ \E a \in RecordPayArgs : Invoke(1, a)
  \/ GetAddresses(1)
  \/ CheckNonce(1)
  \/ RejectDuplicate(1)
  \/ DispatchAddressNotFound(1)
  \/ DispatchAddress(1)
  \/ StoreRecord(1)
  \/ RatesThrow(1)
  \/ RatesNoMultiplier(1)
  \/ \E m \in Multipliers : Respond(1, m)
  \/ \E o \in Ops, options \in RecordUserOptions : CreateUserBegin(o, options)
  \/ \E o \in Ops : CreateUserExists(o)
  \/ \E o \in Ops : CreateUserCheck(o)
  \/ \E o \in Ops : CreateUserInsertRejected(o)
  \/ \E o \in Ops : CreateUserInsert(o)
  \/ \E o \in Ops : CreateUserAddresses(o)
  \/ \E o \in Ops : AddUserAddress(o, "u1", "base", "0xD1")
  \/ \E o \in Ops : RemoveUserAddress(o, "u1", "POLYGON")
  \/ \E o \in Ops, a \in UpdateUserAddresses : UpdateUserNotFound(o, "u1", a)
  \/ \E o \in Ops, a \in UpdateUserAddresses : UpdateUserBegin(o, "u1", a)
  \/ \E o \in Ops : UpdateUserEntry(o)
  \/ \E o \in Ops : DeleteUserNotFound(o, "u1")
  \/ \E o \in Ops : DeleteUserBegin(o, "u1")
  \/ \E o \in Ops : DeleteUserRemove(o)

RecordSpec == RecordInit /\ [][RecordNext]_vars

(* ---------- a payer's session: discovery, then the payment request ---------- *)

\* chain_addresses where bob, who has no settlement-identity key, has a spark
\* address (createUser with addresses.spark and without sparkPublicKey)
KeylessAddresses ==
  InitialAddresses \cup
    { [user_id |-> "u2", chain_name |-> "spark", address |-> "02bb", is_active |-> TRUE] }

SessionAddresses == {InitialAddresses, KeylessAddresses}

\* the layers a payer may choose: none, the Lightning layers, chains users
\* have addresses on and a chain nobody has
SessionLayers == {UNDEFINED, "ln", "spark", "polygon", "base", "ethereum"}

SessionPayArgs ==
  [username : Usernames, domain : DomainIds, amountMsats : Amounts, nonce : {"n1"},
   currency : CurrencyArgs, settlementLayer : SessionLayers,
   assetIdentifier : AssetArgs]

\* the stores hold the users with one of the two sets of addresses; the
\* nonce of the payment is fresh or has a record
SessionInit ==
  \E a \in SessionAddresses :
    StartWith(InitialUsers, a, InitialDomains, {{}, {UsedRecord}}, BOOLEAN)

\* no discovery invocation is under way
DiscoveryOver == \A l \in Lookups : lookup[l].pc \in {"idle", "done"}

\* the payer asks for discovery, or skips it, and then makes the payment
\* request: discovery begins before the payment request and has ended
\* when the payment request begins
SessionNext ==
  \/ pc[1] = "idle" /\ \E u \in Usernames, d \in domains : LookupInvokeUserNotFound(1, u, d)
  \/ pc[1] = "idle" /\ \E u \in Usernames, d \in domains : LookupInvoke(1, u, d)
  \/ FormatAddresses(1)
  \/ \E r \in RateTables : BuildOptions(1, r)
  \/ BuildOptionsThrow(1)
  \/ BuildCurrencies(1)
  \/ BuildCurrenciesThrow(1)
  \/ DiscoveryOver /\ \E a \in SessionPayArgs : InvokeUserNotFound(1, a)
  \/ DiscoveryOver /\ \E a \in SessionPayArgs : Invoke(1, a)
  \/ GetAddresses(1)
  \/ CheckNonce(1)
  \/ RejectDuplicate(1)
  \/ DispatchAddressNotFound(1)
  \/ DispatchAddress(1)
  \/ DispatchMissingKey(1)
  \/ InitMissingSeed(1)
  \/ StartInitialize(1)
  \/ InitializeSucceeds(1)
  \/ InitializeFails(1)
  \/ CreateInvoiceSucceeds(1)
  \/ CreateInvoiceFails(1)
  \/ StoreRecord(1)
  \/ RatesThrow(1)
  \/ RatesNoMultiplier(1)
  \/ \E m \in Multipliers : Respond(1, m)

SessionSpec == SessionInit /\ [][SessionNext]_vars

(* ---------- the callers of the wallet ---------- *)

\* every invocation pays alice over Lightning, so every one asks for the wallet
WalletPayArgs ==
  [username : {"alice"}, domain : DomainIds, amountMsats : Amounts, nonce : Nonces,
   currency : CurrencyArgs, settlementLayer : {UNDEFINED}, assetIdentifier : AssetArgs]

WalletInit ==
  StartWith(InitialUsers, InitialAddresses, InitialDomains, {{}}, BOOLEAN)

\* the steps of an invocation inside initializeSparkWallet that the timer of
\* the polling loop resumes
Polls(c) == PollInit(c) \/ PollInitNoWallet(c)

\* the return of the external SparkWallet.initialize
InitializeReturns(c) == InitializeSucceeds(c) \/ InitializeFails(c)

\* the rate source answers every call with a multiplier
WalletNext ==
  \/ \E c \in Calls, a \in WalletPayArgs : Invoke(c, a)
  \/ \E c \in Calls : GetAddresses(c)
  \/ \E c \in Calls : CheckNonce(c)
  \/ \E c \in Calls : RejectDuplicate(c)
  \/ \E c \in Calls : WalletReady(c)
  \/ \E c \in Calls : WaitForInit(c)
  \/ \E c \in Calls : InitMissingSeed(c)
  \/ \E c \in Calls : StartInitialize(c)
  \/ \E c \in Calls : InitializeSucceeds(c)
  \/ \E c \in Calls : InitializeFails(c)
  \/ \E c \in Calls : PollInit(c)
  \/ \E c \in Calls : PollInitNoWallet(c)
  \/ \E c \in Calls : CreateInvoiceSucceeds(c)
  \/ \E c \in Calls : CreateInvoiceFails(c)
  \/ \E c \in Calls : StoreDuplicate(c)
  \/ \E c \in Calls : StoreRecord(c)
  \/ \E c \in Calls : Respond(c, 1000)

WalletSpec == WalletInit /\ [][WalletNext]_vars

\* the same, where every call of SparkWallet.initialize returns or throws in
\* the end and the timer of every polling invocation fires again and again;
\* the invocations are the finitely many of Calls
WalletLiveSpec ==
  /\ WalletSpec
  /\ \A c \in Calls : WF_vars(InitializeReturns(c))
  /\ \A c \in Calls : WF_vars(Polls(c))

(* ---------- the route and the sendable range of the tenant ---------- *)

\* domains collection: the tenant lets between 1000 and 2000 be sent
LimitDomains ==
  { [_id |-> "d1", domain |-> "pay.example",
     currency_settings |->
       [code \in {"BTC", "USD", "EUR"} |->
          [active |-> code # "EUR", minSendable |-> 1000, maxSendable |-> 2000]]] }

\* a discovery request and pay requests for alice over polygon: an amount
\* below the range, one inside, one above, and zero
LimitQueries ==
  [username : {"alice"}, hostname : {"pay.example"},
   amount : {<< >>, <<"5", "0", "0">>, <<"1", "0", "0", "0">>,
             <<"5", "0", "0", "0">>, <<"0">>},
   nonce : {"n1"}, currency : {"USD"}, settlementLayer : {"polygon"},
   assetIdentifier : {UNDEFINED}]

LimitInit ==
  StartWith(InitialUsers, InitialAddresses, LimitDomains, {{}}, {TRUE})

\* the route serves a discovery request, if the payer makes one, and pay
\* requests, one after another
LimitNext ==
  \/ lookup[1].pc = "idle" /\ \E q \in LimitQueries : ReceiveLookup(q)
  \/ \E q \in LimitQueries : ReceivePayInvalidAmount(q)
  \/ \E q \in LimitQueries, suffix \in Suffixes : ReceivePay(q, suffix)
  \/ DomainFound
  \/ http.stage = "lookup" /\ LookupInvoke(1, http.query.username, http.domain)
  \/ FormatAddresses(1)
  \/ \E r \in RateTables : BuildOptions(1, r)
  \/ BuildOptionsThrow(1)
  \/ BuildCurrencies(1)
  \/ BuildCurrenciesThrow(1)
  \/ ReplyLookup
  \/ http.stage = "pay" /\ Invoke(Current, PayArgsOf(http))
  \/ GetAddresses(Current)
  \/ CheckNonce(Current)
  \/ RejectDuplicate(Current)
  \/ DispatchAddress(Current)
  \/ StoreRecord(Current)
  \/ RatesThrow(Current)
  \/ RatesNoMultiplier(Current)
  \/ \E m \in Multipliers : Respond(Current, m)
  \/ ReplyPay
  \/ NextRequest

LimitSpec == LimitInit /\ [][LimitNext]_vars

(* ---------- discovery beside user management ---------- *)

\* createUser for a new name, without addresses and with two keys that
\* differ in case only
ProfileUserOptions ==
  [username : {"carol"}, domainId : DomainIds, addresses : {<<>>, CollidingAddresses}]

ProfileInit ==
  StartWith(InitialUsers, InitialAddresses, InitialDomains, {{}}, {TRUE})

\* discoveries for alice and for the new user while UserService writes
ProfileNext ==
  \/ \E o \in Ops, options \in ProfileUserOptions : CreateUserBegin(o, options)
  \/ \E o \in Ops : CreateUserExists(o)
  \/ \E o \in Ops : CreateUserCheck(o)
  \/ \E o \in Ops : CreateUserInsertRejected(o)
  \/ \E o \in Ops : CreateUserInsert(o)
  \/ \E o \in Ops : CreateUserAddresses(o)
  \/ \E o \in Ops : AddUserAddress(o, "u1", "POLYGON", "0xD1")
  \/ \E o \in Ops : AddUserAddress(o, "u1", "BASE", "0xD2")
  \/ \E o \in Ops, a \in UpdateUserAddresses : UpdateUserBegin(o, "u1", a)
  \/ \E o \in Ops : UpdateUserEntry(o)
  \/ \E u \in {"alice", "carol"}, d \in domains : LookupInvokeUserNotFound(1, u, d)
  \/ \E u \in {"alice", "carol"}, d \in domains : LookupInvoke(1, u, d)
  \/ FormatAddresses(1)
  \/ \E r \in RateTables : BuildOptions(1, r)
  \/ BuildOptionsThrow(1)
  \/ BuildCurrencies(1)
  \/ BuildCurrenciesThrow(1)

ProfileSpec == ProfileInit /\ [][ProfileNext]_vars

(* ---------- deactivation beside discovery and payment ---------- *)

\* users.updateOne({ _id: userId }, { $set: { is_active } })
SetActive(userId, active) ==
  {IF u._id = userId THEN [u EXCEPT !.is_active = active] ELSE u : u \in users}

\* deactivateUser, activateUser: no user with the id
SwitchUserNotFound(o, name, userId) ==
  /\ Arrives(o)
  /\ getUserById(userId) = NoUser
  /\ mgmt' = [mgmt EXCEPT ![o] =
       [@ EXCEPT !.op = name, !.pc = "done", !.userId = userId,
                 !.result = NO_SUCH_USER]]
  /\ UNCHANGED <<stores, lookup, http, admin, apiKey, clock, served, paying>>

\* deactivateUser, activateUser: the user is found and the update is issued
SwitchUserBegin(o, name, userId) ==
  /\ Arrives(o)
  /\ getUserById(userId) # NoUser
  /\ mgmt' = [mgmt EXCEPT ![o] =
       [@ EXCEPT !.op = name, !.pc = "update", !.userId = userId]]
  /\ UNCHANGED <<stores, lookup, http, admin, apiKey, clock, served, paying>>

\* deactivateUser: is_active is set to false, the audit entry follows
DeactivateUser(o) ==
  /\ mgmt[o].op = "deactivateUser" /\ mgmt[o].pc = "update"
  /\ users' = SetActive(mgmt[o].userId, FALSE)
  /\ Ends(o, OK)
  /\ UNCHANGED <<chain_addresses, domains, lookup, http, admin, apiKey, clock,
                 served, paying>>

\* activateUser: is_active is set to true, the audit entry follows
ActivateUser(o) ==
  /\ mgmt[o].op = "activateUser" /\ mgmt[o].pc = "update"
  /\ users' = SetActive(mgmt[o].userId, TRUE)
  /\ Ends(o, OK)
  /\ UNCHANGED <<chain_addresses, domains, lookup, http, admin, apiKey, clock,
                 served, paying>>

\* payment requests for alice over Lightning and over polygon
SwitchPayArgs ==
  [username : {"alice"}, domain : DomainIds, amountMsats : Amounts, nonce : {"n1"},
   currency : CurrencyArgs, settlementLayer : {UNDEFINED, "polygon"},
   assetIdentifier : AssetArgs]

SwitchInit ==
  StartWith(InitialUsers, InitialAddresses, InitialDomains, {{}}, {TRUE})

\* alice is deactivated and activated again, an id nobody has is tried, and a
\* discovery and a payment request for alice arrive at any moment
SwitchNext ==
  \/ \E o \in Ops, id \in {"u1", "u9"} : SwitchUserNotFound(o, "deactivateUser", id)
  \/ \E o \in Ops, id \in {"u1", "u9"} : SwitchUserBegin(o, "deactivateUser", id)
  \/ \E o \in Ops : DeactivateUser(o)
  \/ \E o \in Ops, id \in {"u1", "u9"} : SwitchUserNotFound(o, "activateUser", id)
  \/ \E o \in Ops, id \in {"u1", "u9"} : SwitchUserBegin(o, "activateUser", id)
  \/ \E o \in Ops : ActivateUser(o)
  \/ \E d \in domains : LookupInvoke(1, "alice", d)
  \/ FormatAddresses(1)
  \/ \E r \in RateTables : BuildOptions(1, r)
  \/ BuildOptionsThrow(1)
  \/ BuildCurrencies(1)
  \/ BuildCurrenciesThrow(1)
  \/ \E a \in SwitchPayArgs : Invoke(1, a)
  \/ GetAddresses(1)
  \/ CheckNonce(1)
  \/ DispatchAddress(1)
  \/ StartInitialize(1)
  \/ InitializeSucceeds(1)
  \/ InitializeFails(1)
  \/ CreateInvoiceSucceeds(1)
  \/ CreateInvoiceFails(1)
  \/ StoreRecord(1)
  \/ RatesThrow(1)
  \/ RatesNoMultiplier(1)
  \/ \E m \in Multipliers : Respond(1, m)

SwitchSpec == SwitchInit /\ [][SwitchNext]_vars

(* ---------- properties: the nonce and the record store ---------- *)

\* the invocation was stopped neither by a missing user nor by a failure of
\* dispatch, of the invoice service or of the rate source
Unhindered(c) == pc[c] = "done" /\ result[c] \in {OK, DUPLICATE_NONCE}

\* the invocation inserted a record
Wrote(c) == paymentId[c] \notin {UNSET, NULL}

\* the records carrying the nonce
RecordsOf(nonce) == {r \in payment_requests : r.nonce = nonce}

\* C1: of two invocations that carry the same nonce, that nothing else stops
\* and whose nonce no third invocation has recorded, exactly one returns a
\* payment instruction and the other is rejected with DUPLICATE_NONCE, under
\* every interleaving; two invocations with one nonce never both succeed.
C1_ExactlyOneAccepted ==
  \A c, d \in Calls :
    (c # d /\ pc[c] = "done" /\ pc[d] = "done" /\ args[c].nonce = args[d].nonce)
    => /\ ~(result[c] = OK /\ result[d] = OK)
       /\ ( /\ Unhindered(c) /\ Unhindered(d)
            /\ \A e \in Calls \ {c, d} : args[e].nonce = args[c].nonce => ~Wrote(e) )
          => \/ /\ result[c] = OK /\ response[c].pr # NULL
                /\ result[d] = DUPLICATE_NONCE /\ response[d] = NoResponse
             \/ /\ result[d] = OK /\ response[d].pr # NULL
                /\ result[c] = DUPLICATE_NONCE /\ response[c] = NoResponse

\* two invocations with one nonce both passed the nonce lookup before either
\* inserted; one was answered, the other rejected by the insertion
C1_Witness ==
  \E c, d \in Calls :
    /\ c # d /\ args[c].nonce = args[d].nonce
    /\ existingPayment[c] = NoPayment /\ existingPayment[d] = NoPayment
    /\ result[c] = OK /\ response[c].pr # NULL
    /\ result[d] = DUPLICATE_NONCE /\ paymentId[d] = NULL

\* C2: an invocation that begins after an invocation with the same nonce has
\* succeeded, and whose user resolves, is rejected with DUPLICATE_NONCE and
\* returns no payment instruction, whatever its user, amount or layer.
C2_UsedNonceRejected ==
  \A c \in Calls :
    (pc[c] = "done" /\ seen[c].succeeded /\ result[c] # USER_NOT_FOUND)
    => /\ result[c] = DUPLICATE_NONCE
       /\ response[c] = NoResponse
       /\ paymentRequest[c] = UNSET

\* a nonce that served one user on one layer is refused to another user on
\* another layer
C2_Witness ==
  \E c, d \in Calls :
    /\ result[d] = OK /\ args[c].nonce = args[d].nonce
    /\ seen[c].succeeded /\ result[c] = DUPLICATE_NONCE
    /\ args[c].username # args[d].username
    /\ args[c].settlementLayer # args[d].settlementLayer

C4_FailedDispatchWritesNothing ==
  \A c \in Calls :
    (pc[c] = "done" /\ result[c] \in DispatchErrors)
    => /\ paymentId[c] = UNSET
       /\ \A r \in RecordsOf(args[c].nonce) :
            \E d \in Calls \ {c} : Wrote(d) /\ paymentId[d] = r._id

\* a chain layer without an address (Scenario B): the error, and no record
\* for the nonce
C4_Witness ==
  \E c \in Calls :
    /\ pc[c] = "done" /\ result[c] = ADDRESS_NOT_FOUND
    /\ args[c].settlementLayer = "POLYGON"
    /\ RecordsOf(args[c].nonce) = {}

\* C5 as claimed: when the rate lookup fails and the caller receives the
\* error, no record carrying the nonce of that invocation has been written.
C5_RateFailureWritesNothing ==
  \A c \in Calls :
    (pc[c] = "done" /\ result[c] \in RateErrors)
    => RecordsOf(args[c].nonce) = {}


(* ---------- properties: the shared wallet ---------- *)

\* the invocations whose call of SparkWallet.initialize has not returned
InFlight == {c \in Calls : pc[c] = "initializing"}

\* initializeSparkWallet returned a wallet object to the invocation
GotWallet(c) == wallet[c] \notin {UNSET, THREW, UNDEFINED, NULL}

\* C6: at most one call of SparkWallet.initialize is in flight at any time,
\* and at most one call of it ever returns a wallet.
C6_SingleInitialization ==
  /\ Cardinality(InFlight) <= 1
  /\ initDone <= 1
  /\ (InFlight # {} => isInitializing /\ sparkWallet = UNDEFINED)

\* two first callers overlap: one initializes, the other waits
C6_Witness ==
  \E c, d \in Calls :
    pc[c] = "initializing" /\ pc[d] = "waitInit" /\ initCalls = 1

\* C7 as claimed: no invocation gets an absent wallet as the normal return
\* value of initializeSparkWallet; a waiter of a failed initialization gets
\* the failure as an error.
C7_WaitersGetTheFailure ==
  \A c \in Calls : wallet[c] \notin {UNDEFINED, NULL}

\* C8: once a wallet is stored it is never replaced or cleared, and every
\* return of initializeSparkWallet from then on hands out the stored wallet,
\* to the initializer, to the waiters and to later callers alike.
C8_SameHandleForAll ==
  [][ /\ (sparkWallet # UNDEFINED => sparkWallet' = sparkWallet)
      /\ \A c \in Calls :
           (sparkWallet' # UNDEFINED /\ wallet[c] = UNSET /\ wallet'[c] # UNSET)
           => wallet'[c] = sparkWallet' ]_vars

\* the initializer and another caller hold the one stored wallet
C8_Witness ==
  \E c, d \in Calls :
    /\ c # d /\ sparkWallet # UNDEFINED
    /\ wallet[c] = sparkWallet /\ "initialize" \in sdkCalls[c]
    /\ wallet[d] = sparkWallet /\ "initialize" \notin sdkCalls[d]

\* C9: a failed initialization (SparkWallet.initialize throws, or SPARK_SEED
\* is missing) leaves the flag cleared and no wallet stored, and an
\* invocation that reaches initializeSparkWallet afterwards, while no other
\* is initializing, starts an attempt of its own instead of failing on the
\* remembered error.
C9_FailureNotCached ==
  [][ \A c \in Calls :
        /\ (wallet[c] # THREW /\ wallet'[c] = THREW)
           => (~isInitializing' /\ sparkWallet' = UNDEFINED)
        /\ ( /\ pc[c] = "dispatch" /\ pc'[c] # "dispatch"
             /\ existingPayment[c] = NoPayment
             /\ args[c].settlementLayer \in {UNDEFINED, "ln", "spark"}
             /\ user[c].spark_public_key # NULL
             /\ sparkSeed /\ sparkWallet = UNDEFINED
             /\ \A d \in Calls : pc[d] # "initializing" )
           => (pc'[c] = "initializing" /\ initCalls' = initCalls + 1) ]_vars

\* an initialization failed, and a later attempt stored a wallet
C9_Witness ==
  \E c, d \in Calls :
    /\ result[c] = INIT_FAILED /\ wallet[c] = THREW
    /\ "initialize" \in sdkCalls[d] /\ GotWallet(d) /\ sparkWallet = wallet[d]
    /\ initCalls = 2 /\ ~isInitializing

(* ---------- properties: dispatch ---------- *)

\* C10: an invocation over Lightning (layer absent, 'ln' or 'spark') for a
\* user without a Spark public key calls nothing of the invoice service and
\* writes no record, and once its nonce has passed the nonce lookup it ends
\* with the missing-key error.
C10_MissingKeyStopsDispatch ==
  \A c \in Calls :
    ( /\ pc[c] # "idle" /\ user[c] # NoUser
      /\ args[c].settlementLayer \in {UNDEFINED, "ln", "spark"}
      /\ user[c].spark_public_key = NULL )
    => /\ sdkCalls[c] = {}
       /\ wallet[c] = UNSET
       /\ paymentRequest[c] = UNSET
       /\ paymentId[c] = UNSET
       /\ pc[c] \in {"getAddresses", "checkNonce", "dispatch", "done"}
       /\ pc[c] = "done" =>
            /\ result[c] \in {MISSING_SPARK_KEY, DUPLICATE_NONCE}
            /\ existingPayment[c] = NoPayment => result[c] = MISSING_SPARK_KEY

\* Scenario C on each Lightning layer: the user without a key is refused
C10_Witness ==
  \E c, d \in Calls :
    /\ args[c].username = "bob" /\ args[c].settlementLayer = "ln"
    /\ result[c] = MISSING_SPARK_KEY
    /\ args[d].username = "bob" /\ args[d].settlementLayer = UNDEFINED
    /\ result[d] = MISSING_SPARK_KEY
    /\ payment_requests = {}

\* C11: a successful invocation whose layer is neither absent, 'ln' nor
\* 'spark' returns as payment instruction exactly the stored address of the
\* user's chain address whose chain name equals the layer ignoring case, and
\* has called nothing of the invoice service.
C11_ChainLayerReturnsStoredAddress ==
  \A c \in Calls :
    ( /\ pc[c] = "done" /\ result[c] = OK
      /\ args[c].settlementLayer \notin {UNDEFINED, "ln", "spark"} )
    => LET ofLayer ==
             {a \in chain_addresses :
                /\ a.user_id = user[c]._id /\ a.is_active
                /\ ToLowerCase(a.chain_name) = ToLowerCase(args[c].settlementLayer)}
       IN /\ ofLayer # {}
          /\ \A a \in ofLayer : response[c].pr = a.address
          /\ sdkCalls[c] = {} /\ wallet[c] = UNSET

\* the layer given in upper case is answered with the address stored under
\* the lower-case chain name
C11_Witness ==
  \E c \in Calls :
    /\ pc[c] = "done" /\ result[c] = OK
    /\ args[c].username = "alice" /\ args[c].settlementLayer = "POLYGON"
    /\ response[c].pr = "0xA1" /\ sdkCalls[c] = {}

\* the settlement layers the static Chain Mapping knows
MappedLayers == {CHAIN_MAPPING[n].layer : n \in DOMAIN CHAIN_MAPPING}

\* C12 as claimed: an invocation naming a layer that is neither 'ln' nor a
\* layer of the Chain Mapping, whose user resolves, whose nonce is unused
\* and that the rate source does not fail, always ends with the
\* address-not-found error, whatever addresses the user has stored.
C12_UnknownLayerAlwaysFails ==
  \A c \in Calls :
    ( /\ pc[c] = "done"
      /\ args[c].settlementLayer # UNDEFINED
      /\ ToLowerCase(args[c].settlementLayer) \notin MappedLayers \cup {"ln"}
      /\ result[c] \notin {USER_NOT_FOUND, DUPLICATE_NONCE} \cup RateErrors )
    => result[c] = ADDRESS_NOT_FOUND

\* C13 as claimed: a response to a request with no layer, or with the
\* default Lightning layer 'ln', never carries a settlement descriptor.
C13_NoDescriptorOnDefaultLayer ==
  \A c \in Calls :
    ( /\ pc[c] = "done" /\ result[c] = OK
      /\ args[c].settlementLayer \in {UNDEFINED, "ln"} )
    => response[c].settlement = NoSettlement

(* ---------- properties: discovery ---------- *)

\* the active chain addresses stored for the user of a discovery invocation
StoredFor(l) ==
  {a \in chain_addresses : a.user_id = lookup[l].user._id /\ a.is_active}

\* buildSettlementOptions has returned to the invocation
Built(l) == lookup[l].rates # NoRates

\* C14: a discovery invocation for an existing user with no stored chain
\* address reads no address, asks the rate source nothing for settlement
\* options, and fails only if the rate source throws while the currencies
\* are quoted; its response carries no settlementOptions field: the field is
\* left out, not set to an empty list.
C14_NoAddressesNoOptionsField ==
  \A l \in Lookups :
    (lookup[l].pc = "done" /\ lookup[l].user # NoUser /\ StoredFor(l) = {})
    => /\ lookup[l].chains = <<>>
       /\ Built(l)
       /\ lookup[l].result \in {OK, RATE_FAILED}
       /\ lookup[l].result = OK =>
            /\ lookup[l].response.settlementOptions = {}
            /\ lookup[l].response.callback # NULL

\* bob without any address is answered, with currencies and without options
C14_Witness ==
  \E l \in Lookups :
    /\ lookup[l].pc = "done" /\ lookup[l].result = OK
    /\ lookup[l].username = "bob" /\ StoredFor(l) = {}
    /\ lookup[l].response.settlementOptions = {}
    /\ Len(lookup[l].response.currencies) > 0

\* C15: the options built for a user are exactly those of the stored
\* addresses whose lower-cased chain name the Chain Mapping knows, one per
\* such address and under the mapped layer: an unmapped chain name yields no
\* option, hides no mapped one and does not make the invocation fail.
C15_UnmappedChainsSkipped ==
  \A l \in Lookups :
    Built(l)
    => LET options == lookup[l].settlementOptions
           mapped == {a \in StoredFor(l) :
                        ToLowerCase(a.chain_name) \in DOMAIN CHAIN_MAPPING}
       IN /\ Len(options) = Cardinality(mapped)
          /\ \A a \in mapped :
               \E i \in 1..Len(options) :
                 options[i].settlementLayer =
                   CHAIN_MAPPING[ToLowerCase(a.chain_name)].layer
          /\ \A a \in StoredFor(l) \ mapped :
               \A i \in 1..Len(options) :
                 /\ options[i].settlementLayer # a.chain_name
                 /\ options[i].assets[1].identifier # a.address
          /\ lookup[l].pc = "done" => lookup[l].result \in {OK, RATE_FAILED}
          /\ lookup[l].result = OK =>
               lookup[l].response.settlementOptions =
                 IF mapped = {} THEN {} ELSE {options}

\* alice with an address on an unmapped chain is answered with the options
\* of her two mapped chains
C15_Witness ==
  \E l \in Lookups :
    /\ lookup[l].pc = "done" /\ lookup[l].result = OK
    /\ \E a \in StoredFor(l) : a.chain_name = "solana-mainnet"
    /\ Len(lookup[l].settlementOptions) = 2
    /\ lookup[l].response.settlementOptions = {lookup[l].settlementOptions}

\* C16 as claimed: the identifier of every option built from a stored
\* address is the stored address verbatim when the mapped layer is 'spark',
\* and the mapping's asset, an underscore and the layer in upper case
\* otherwise.
C16_IdentifierOfOption ==
  \A l \in Lookups :
    Built(l)
    => \A i \in 1..Len(lookup[l].settlementOptions) :
         LET option == lookup[l].settlementOptions[i]
             row == CHOOSE a \in StoredFor(l) :
                      /\ ToLowerCase(a.chain_name) \in DOMAIN CHAIN_MAPPING
                      /\ CHAIN_MAPPING[ToLowerCase(a.chain_name)].layer =
                           option.settlementLayer
             mapping == CHAIN_MAPPING[ToLowerCase(row.chain_name)]
         IN option.assets[1].identifier =
              IF mapping.layer = "spark" THEN row.address
              ELSE mapping.asset \o "_" \o ToUpperCase(mapping.layer)

C18_ConversionRoundsDown ==
  \A c \in Calls :
    (pc[c] = "done" /\ result[c] = OK)
    => LET amount == args[c].amountMsats
           multiplier == response[c].multiplier
           converted == response[c].amount
       IN /\ amount >= 0 /\ multiplier > 0 /\ response[c].fee = 0
          /\ converted * multiplier <= amount
          /\ amount < (converted + 1) * multiplier
          /\ (amount = 1999 /\ multiplier = 1000) => converted = 1
          /\ (amount = 2000 /\ multiplier = 1000) => converted = 2
          /\ (amount = 999 /\ multiplier = 1000) => converted = 0

\* 1999 by 1000 was answered with 1
C18_Witness ==
  \E c \in Calls :
    /\ pc[c] = "done" /\ result[c] = OK
    /\ args[c].amountMsats = 1999 /\ response[c].multiplier = 1000
    /\ response[c].amount = 1

IsPositiveInteger(chars) ==
  /\ chars # <<>>
  /\ \A i \in 1..Len(chars) : chars[i] \in Digits
  /\ ValueOfDigits(chars) > 0

\* the tenant of the request and the user of the request exist
TenantFound == \E d \in domains : d.domain = http.query.hostname
UserFound ==
  \E d \in domains, u \in users :
    d.domain = http.query.hostname /\ u.domain_id = d._id
    /\ u.username = http.query.username

\* C20 as claimed: a request that passed the schema and whose amount is
\* present and not a positive integer is refused (400; whatever else is
\* wrong with it, it is not answered 200); otherwise it is answered 404 when
\* the tenant or the user is not found, 200 when the phase succeeds, 400
\* when the chosen layer has no address for the user and 409 when the nonce
\* was already used.
C20_StatusOfOutcome ==
  (http.stage = "replied" /\ ~SchemaRejects(http.query))
  => LET amount == http.query.amount
     IN IF amount # <<>> /\ ~IsPositiveInteger(amount)
        THEN http.status # 200
        ELSE /\ ~(TenantFound /\ UserFound) => http.status = 404
             /\ (amount = <<>> /\ lookup[1].result = OK) => http.status = 200
             /\ (amount # <<>> /\ result[1] = OK) => http.status = 200
             /\ result[1] = ADDRESS_NOT_FOUND => http.status = 400
             /\ result[1] = DUPLICATE_NONCE => http.status = 409

(* ---------- properties: errors at the route ---------- *)

\* the outcomes of the engine that the error taxonomy counts as domain
\* errors: no user, a used nonce, no address for the layer, no
\* settlement-identity key, no usable rate
DomainErrors ==
  {USER_NOT_FOUND, DUPLICATE_NONCE, ADDRESS_NOT_FOUND, MISSING_SPARK_KEY,
   BAD_MULTIPLIER}

\* C21 as claimed: a request that ended in a domain error (an unknown tenant
\* or user, an invalid amount, a used nonce, a layer without an address, a
\* user without a settlement-identity key, no usable rate) is never answered
\* with the generic internal-error status 500.
C21_DomainErrorsNotInternal ==
  ( /\ http.stage = "replied"
    /\ \/ ~TenantFound
       \/ ~UserFound
       \/ (http.query.amount # <<>> /\ InvalidAmount(http.query.amount))
       \/ (pc[1] = "done" /\ result[1] \in DomainErrors) )
  => http.status # 500

(* ---------- properties: the unknown user ---------- *)

\* C22: in either phase, an invocation of the engine for a username that no
\* user of the tenant carries has ended at once with the null result, which
\* the route answers with 404; it read no address, made no nonce lookup (not
\* even for a nonce that is already recorded), called nothing of the invoice
\* service and wrote no record.
C22_UnknownUserStopsAtOnce ==
  /\ ( /\ pc[1] # "idle"
       /\ \A u \in users :
            ~(u.username = args[1].username /\ u.domain_id = args[1].domain) )
     => /\ pc[1] = "done" /\ result[1] = USER_NOT_FOUND
        /\ response[1] = NoResponse
        /\ userAddresses[1] = {}
        /\ existingPayment[1] = NoPayment
        /\ sdkCalls[1] = {} /\ wallet[1] = UNSET
        /\ paymentRequest[1] = UNSET /\ paymentId[1] = UNSET
        /\ payment_requests \subseteq {UsedRecord}
        /\ sparkWallet = UNDEFINED /\ initCalls = 0
        /\ http.stage = "replied" => http.status = 404
  /\ ( /\ lookup[1].pc # "idle"
       /\ \A u \in users :
            ~(u.username = lookup[1].username /\ u.domain_id = lookup[1].domain._id) )
     => /\ lookup[1].pc = "done" /\ lookup[1].result = USER_NOT_FOUND
        /\ lookup[1].response = NoLookupResponse
        /\ lookup[1].chains = <<>> /\ lookup[1].rates = NoRates
        /\ payment_requests \subseteq {UsedRecord}
        /\ http.stage = "replied" => http.status = 404

\* a pay request for an unknown user carrying a nonce that is already
\* recorded is answered 404, not 409
C22_Witness ==
  /\ http.stage = "replied" /\ http.status = 404
  /\ http.query.username = "nobody" /\ http.query.hostname = "pay.example"
  /\ http.paymentNonce = "n1" /\ payment_requests = {UsedRecord}
  /\ pc[1] = "done" /\ result[1] = USER_NOT_FOUND

(* ---------- properties: the tenants ---------- *)

\* the users of the tenant of the request that carry the username of the request
UsersOfRequest ==
  {u \in users :
     /\ u.username = http.query.username
     /\ \E d \in domains : d.domain = http.query.hostname /\ d._id = u.domain_id}

\* the addresses stored for those users
AddressesOfRequest ==
  {a \in chain_addresses : \E u \in UsersOfRequest : a.user_id = u._id}

\* C23: a discovery or payment request under a tenant only resolves a user
\* of that tenant: the user the engine works on, the addresses it reads, the
\* address it returns, the options it offers and the settlement-identity key
\* that lets an invoice be made are all those of the tenant's user of that
\* name; when the tenant has no such user the answer is 404 even when
\* another tenant has one.
C23_OnlyUsersOfTheTenant ==
  /\ user[1] # NoUser => user[1] \in UsersOfRequest
  /\ userAddresses[1] \subseteq AddressesOfRequest
  /\ (pc[1] = "done" /\ result[1] = OK /\ sdkCalls[1] = {})
       => \E a \in AddressesOfRequest : response[1].pr = a.address
  /\ sdkCalls[1] # {} => \E u \in UsersOfRequest : u.spark_public_key # NULL
  /\ lookup[1].user # NoUser => lookup[1].user \in UsersOfRequest
  /\ \A i \in 1..Len(lookup[1].chains) :
       \E a \in AddressesOfRequest :
         /\ a.chain_name = lookup[1].chains[i].chainName
         /\ a.address = lookup[1].chains[i].chainData.address
  /\ \A i \in 1..Len(lookup[1].settlementOptions) :
       \E a \in AddressesOfRequest :
         a.chain_name = lookup[1].settlementOptions[i].settlementLayer
  /\ (http.stage = "replied" /\ http.status = 200) => UsersOfRequest # {}
  /\ ( /\ http.stage = "replied" /\ UsersOfRequest = {}
       /\ ~SchemaRejects(http.query)
       /\ (http.query.amount = <<>> \/ ~InvalidAmount(http.query.amount)) )
     => http.status = 404

\* alice of the second tenant is paid on her own polygon address, not on the
\* one of the first tenant's alice
C23_Witness ==
  /\ http.stage = "replied" /\ http.status = 200
  /\ http.query.username = "alice" /\ http.query.hostname = "other.example"
  /\ http.query.settlementLayer = "polygon"
  /\ user[1]._id = "u3" /\ response[1].pr = "0xC3"

(* ---------- properties: user management ---------- *)

\* C24 as claimed: no two users of a domain have the same case-normalized
\* username, and a createUser for a username that, case-normalized, existed
\* in the domain when it was called fails with the 'already exists' error
\* and creates nothing.
C24_DuplicateUsernameRefused ==
  /\ \A u, v \in users :
       (u.domain_id = v.domain_id /\ ToLowerCase(u.username) = ToLowerCase(v.username))
       => u = v
  /\ \A o \in Ops :
       (mgmt[o].op = "createUser" /\ mgmt[o].pc = "done" /\ mgmt[o].existed)
       => /\ mgmt[o].result = ALREADY_EXISTS
          /\ mgmt[o].userId = UNSET

\* C25 as claimed: every user has at most one stored chain address per
\* chain name, the names compared in lower case.
C25_OneAddressPerChain ==
  \A a, b \in chain_addresses :
    (a.user_id = b.user_id /\ ToLowerCase(a.chain_name) = ToLowerCase(b.chain_name))
    => a = b

(* ---------- properties: the admin routes ---------- *)

\* the request carries 'Authorization: Bearer <key>' with the configured API_KEY
CarriesTheKey ==
  /\ apiKey \notin {UNDEFINED, ""}
  /\ admin.authorization = "Bearer " \o apiKey

\* the collections are as they were before the request, and UserService was
\* not called
StoresAsBefore ==
  /\ users = InitialUsers
  /\ chain_addresses = InitialAddresses
  /\ domains = InitialDomains
  /\ payment_requests = {}
  /\ mgmt = [o \in Ops |-> NoOp]

\* what authenticateAdmin is said to answer to a request without the key
StatusOfRefusal ==
  IF admin.authorization \notin {"Bearer k1", "Bearer k2"} THEN 401
  ELSE IF apiKey = UNDEFINED THEN 500 ELSE 403

\* C26, as stated: a request that does not carry 'Authorization: Bearer <key>'
\* with the configured API_KEY never reaches a handler of an admin route; it
\* ends with 401 (header missing or malformed), 500 (API_KEY not configured)
\* or 403 (wrong key) and no store is modified.
C26_RefusedBy401_500_403 ==
  (admin.stage # "idle" /\ ~CarriesTheKey)
  => /\ admin.stage \in {"received", "refused"}
     /\ StoresAsBefore
     /\ admin.stage = "refused" => admin.status = StatusOfRefusal

\* C26, amended: a request without the configured key never reaches a handler
\* and modifies no store; it ends with 400 when its body does not pass the
\* schema of the route (decided before the header is looked at), and
\* otherwise with 401, 500 or 403.
C26_NoHandlerWithoutKey ==
  (admin.stage # "idle" /\ ~CarriesTheKey)
  => /\ admin.stage \in {"received", "refused"}
     /\ StoresAsBefore
     /\ admin.stage = "refused"
        => admin.status = IF admin.route \in {POST_DOMAINS, POST_USERS} /\ ~admin.valid
                          THEN 400 ELSE StatusOfRefusal

\* a request to delete a domain with a key that is not the configured one
\* was answered 403
C26_Witness ==
  /\ admin.stage = "refused"
  /\ admin.route = DELETE_DOMAIN
  /\ admin.authorization = "Bearer k2"
  /\ apiKey = "k1"
  /\ admin.status = 403
  /\ domains = InitialDomains

(* ---------- properties: invocations with different nonces ---------- *)

\* the ways an invocation fails on its own: its user or address is missing,
\* or a collaborator it called itself has failed
OwnFailures ==
  {USER_NOT_FOUND, ADDRESS_NOT_FOUND, MISSING_SPARK_KEY, SEED_NOT_SET,
   INIT_FAILED, INVOICE_FAILED, RATE_FAILED, BAD_MULTIPLIER}

\* C27: of two overlapping invocations with different nonces, each one that
\* does not fail on its own (its user and address resolve and no collaborator
\* it called has failed) succeeds and has written its own record, whatever
\* the other invocation did.
C27_DifferentNoncesIndependent ==
  \A c, d \in Calls :
    (/\ c # d /\ pc[c] = "done" /\ pc[d] = "done"
     /\ args[c].nonce # args[d].nonce
     /\ result[c] \notin OwnFailures)
    => /\ result[c] = OK
       /\ \E r \in payment_requests : r._id = paymentId[c] /\ r.nonce = args[c].nonce

(* ---------- properties: requests without a nonce ---------- *)

\* the nonce is one the handler made up
MadeUp(nonce) == Len(nonce) > 4 /\ SubSeq(nonce, 1, 4) = "uma_"

\* the invocations that served a request without a nonce and have ended
EndedWithoutNonce == {c \in Calls : pc[c] = "done" /\ MadeUp(args[c].nonce)}

\* the invocation has left a record of its own under its nonce
LeftItsRecord(c) ==
  \E r \in payment_requests : r._id = paymentId[c] /\ r.nonce = args[c].nonce

\* C28, as stated: a pay request without a nonce is served under a nonce the
\* handler makes up, so that a request without a nonce that comes after
\* accepted requests, and does not fail for a reason of its own, is accepted
\* as well and leaves its own record.
C28_NoNonceAlwaysAccepted ==
  \A c \in EndedWithoutNonce :
    (/\ \A d \in Calls : d < c => result[d] = OK
     /\ result[c] \notin OwnFailures)
    => result[c] = OK /\ LeftItsRecord(c)

\* C28, amended: a pay request without a nonce is never refused for the
\* missing nonce: the engine is called with a nonce made up from the clock
\* and a random suffix. Such a request is refused as a duplicate only when the
\* nonce made up for it is the nonce of a record an earlier request has left;
\* otherwise, unless it fails for another reason, it is accepted and leaves
\* its own record.
C28_NoNonceAcceptedUnlessRepeated ==
  /\ (http.stage \in {"pay", "replied"} /\ http.query.nonce = UNDEFINED
      /\ pc[Current] # "idle")
     => MadeUp(args[Current].nonce) /\ args[Current].nonce = http.paymentNonce
  /\ \A c \in EndedWithoutNonce :
       /\ result[c] = DUPLICATE_NONCE
          => \E d \in Calls : d < c /\ args[d].nonce = args[c].nonce /\ LeftItsRecord(d)
       /\ result[c] \notin OwnFailures \cup {DUPLICATE_NONCE}
          => result[c] = OK /\ LeftItsRecord(c)

\* two requests without a nonce, one after the other, were both accepted, and
\* each has left its own record
C28_Witness ==
  /\ http.stage = "replied" /\ http.status = 200 /\ http.query.nonce = UNDEFINED
  /\ served = 1
  /\ result[1] = OK /\ result[2] = OK
  /\ MadeUp(args[1].nonce) /\ MadeUp(args[2].nonce)
  /\ args[1].nonce # args[2].nonce
  /\ paymentId[1] # paymentId[2]
  /\ LeftItsRecord(1) /\ LeftItsRecord(2)

(* ---------- properties: the records of the store ---------- *)

C30_RecordsWriteOnce ==
  [][ /\ \A r \in payment_requests : r \in payment_requests'
      /\ {r.nonce : r \in payment_requests} \subseteq {r.nonce : r \in payment_requests'}
    ]_vars

\* the record the engine wrote for a payment to alice is in the store after
\* deleteUser has removed alice
C30_Witness ==
  /\ \E r \in payment_requests :
       r._id = paymentId[1] /\ r.user_id = "u1" /\ r.nonce = args[1].nonce
  /\ \E o \in Ops : mgmt[o].op = "deleteUser" /\ mgmt[o].pc = "done" /\ mgmt[o].result = OK
  /\ \A u \in users : u._id # "u1"

(* ---------- properties: the two phases ---------- *)

\* the user the stores hold for the arguments of a payment request
StoredUser(a) ==
  {u \in users : u.username = a.username /\ u.domain_id = a.domain}

\* the active addresses the stores hold for that user on the chosen layer
StoredOnLayer(a) ==
  {r \in chain_addresses :
     /\ r.is_active
     /\ \E u \in StoredUser(a) : r.user_id = u._id
     /\ ToLowerCase(r.chain_name) = ToLowerCase(a.settlementLayer)}

\* a record with the nonce existed before the invocation wrote its own
NonceUsedBefore(c) ==
  \E r \in payment_requests : r.nonce = args[c].nonce /\ r._id # paymentId[c]

\* the outcomes a payment request can have on these arguments and these
\* stores, over all the answers of the wallet SDK and of the rate source
PayOutcomes(c) ==
  LET a == args[c]
  IN IF StoredUser(a) = {} THEN {USER_NOT_FOUND}
     ELSE IF NonceUsedBefore(c) THEN {DUPLICATE_NONCE}
     ELSE IF a.settlementLayer \notin {UNDEFINED, "ln", "spark"}
       THEN IF StoredOnLayer(a) = {} THEN {ADDRESS_NOT_FOUND}
            ELSE {OK, RATE_FAILED, BAD_MULTIPLIER}
     ELSE IF \A u \in StoredUser(a) : u.spark_public_key \in {NULL, ""}
       THEN {MISSING_SPARK_KEY}
     ELSE IF sparkSeed THEN {INIT_FAILED, INVOICE_FAILED, OK, RATE_FAILED, BAD_MULTIPLIER}
     ELSE {SEED_NOT_SET}

\* the payment instruction of a successful payment request on these
\* arguments and these stores
PayInstructions(c) ==
  IF args[c].settlementLayer \notin {UNDEFINED, "ln", "spark"}
  THEN {r.address : r \in StoredOnLayer(args[c])}
  ELSE {"lnbc" \o ToString(c)}

\* C31: the outcome of a payment request is decided by its arguments, the
\* stores and the answers of the wallet SDK and the rate source, and by
\* nothing a discovery has left: whether or not a discovery came first, the
\* request ends with an outcome these allow and, when it succeeds, with the
\* instruction these give; and until the payment request begins, the
\* service holds no wallet, no flag and no record that a discovery made.
C31_PaymentIgnoresDiscovery ==
  /\ pc[1] = "done" =>
       /\ result[1] \in PayOutcomes(1)
       /\ result[1] = OK => response[1].pr \in PayInstructions(1)
  /\ pc[1] = "idle" =>
       /\ sparkWallet = UNDEFINED /\ ~isInitializing /\ initCalls = 0
       /\ payment_requests \subseteq {UsedRecord}

\* a payment request for alice over polygon succeeded after a discovery for
\* alice had ended in a failure of the rate source, so without an
\* advertised option
C31_Witness ==
  /\ lookup[1].pc = "done" /\ lookup[1].username = "alice"
  /\ lookup[1].result = RATE_FAILED
  /\ pc[1] = "done" /\ args[1].username = "alice"
  /\ args[1].settlementLayer = "polygon"
  /\ result[1] = OK /\ response[1].pr = "0xA1"

(* ---------- properties: the invoice service ---------- *)

\* C32: an invocation calls createLightningInvoice at most once: the call
\* is issued only by an invocation that has not called it before, a failure
\* of the call ends the invocation at once with that failure, and an
\* invocation that has ended takes no further step.
C32_InvoiceCalledOnceNoRetry ==
  [][ \A c \in Calls :
        /\ (pc[c] # "createInvoice" /\ pc'[c] = "createInvoice")
             => "createLightningInvoice" \notin sdkCalls[c]
        /\ (pc[c] = "createInvoice" /\ pc'[c] # "createInvoice")
             => \/ pc'[c] = "store"
                \/ pc'[c] = "done" /\ result'[c] = INVOICE_FAILED
        /\ pc[c] = "done"
             => /\ pc'[c] = "done" /\ result'[c] = result[c]
                /\ sdkCalls'[c] = sdkCalls[c]
    ]_vars

\* the call of one invocation failed and the invocation ended with the
\* failure and without a record, while another invocation got its invoice
\* from the same wallet
C32_Witness ==
  \E c, d \in Calls :
    /\ c # d
    /\ pc[c] = "done" /\ result[c] = INVOICE_FAILED
    /\ "createLightningInvoice" \in sdkCalls[c] /\ paymentId[c] = UNSET
    /\ pc[d] = "done" /\ result[d] = OK /\ wallet[d] = wallet[c]

\* a step of a discovery: a step of generateLookupResponse, or a step of the
\* route on a request without an amount
DiscoveryStep ==
  \/ lookup' # lookup
  \/ http' # http /\ http'.query.amount = << >>

\* C33: no step of a discovery, whether the discovery ends with a response,
\* with an unknown tenant or user or with a failure of the rate source,
\* changes the users, the chain addresses or the payment requests, so no
\* nonce is consumed by it.
C33_DiscoveryWritesNothing ==
  [][ DiscoveryStep =>
        /\ users' = users /\ chain_addresses' = chain_addresses
        /\ payment_requests' = payment_requests
        /\ {r.nonce : r \in payment_requests'} = {r.nonce : r \in payment_requests}
    ]_vars

\* a discovery for alice was answered 200 and the store of payment requests
\* holds the one record it held before, under the nonce n1
C33_Witness ==
  /\ http.stage = "replied" /\ http.status = 200
  /\ http.query.amount = << >> /\ http.query.username = "alice"
  /\ lookup[1].pc = "done" /\ lookup[1].result = OK
  /\ payment_requests = {UsedRecord}

\* the settlement layers the discovery response of an invocation lists
AdvertisedLayers(l) ==
  {lookup[l].settlementOptions[i].settlementLayer :
     i \in 1..Len(lookup[l].settlementOptions)}

\* C34: over unchanged stores, a payment request for a user that chooses a
\* settlement layer the discovery response for that user listed, with a
\* fresh nonce and a positive amount, does not end with ADDRESS_NOT_FOUND
\* or with MISSING_SPARK_KEY.
C34_AdvertisedLayerUsable ==
  ( /\ lookup[1].pc = "done" /\ lookup[1].result = OK
    /\ pc[1] = "done"
    /\ args[1].username = lookup[1].username
    /\ args[1].domain = lookup[1].domain._id
    /\ args[1].settlementLayer \in AdvertisedLayers(1)
    /\ args[1].amountMsats > 0
    /\ ~NonceUsedBefore(1) )
  => result[1] \notin {ADDRESS_NOT_FOUND, MISSING_SPARK_KEY}

\* the invoice service created an invoice for the invocation
InvoiceCreated(c) ==
  "createLightningInvoice" \in sdkCalls[c] /\ paymentRequest[c] # UNSET

\* C35: an invocation rejected with DUPLICATE_NONCE has had no invoice
\* created for it, and of the invocations that carry one nonce at most one
\* has had an invoice created, under every interleaving.
C35_OneInvoicePerNonce ==
  /\ \A c \in Calls :
       (pc[c] = "done" /\ result[c] = DUPLICATE_NONCE) => ~InvoiceCreated(c)
  /\ \A c, d \in Calls :
       (c # d /\ args[c].nonce = args[d].nonce /\ args[c].nonce # UNSET)
         => ~(InvoiceCreated(c) /\ InvoiceCreated(d))

(* ---------- properties: the response and the record ---------- *)

\* C36: for every invocation that returned a response, the store holds
\* exactly one record under the invocation's nonce; it is the record the
\* invocation inserted, it carries the user found for the request and the
\* requested amount, and its payment instruction is the pr of the response.
C36_ResponseMatchesRecord ==
  \A c \in Calls :
    (pc[c] = "done" /\ result[c] = OK) =>
      /\ Cardinality({r \in payment_requests : r.nonce = args[c].nonce}) = 1
      /\ \A r \in payment_requests :
           r.nonce = args[c].nonce =>
             /\ r._id = paymentId[c]
             /\ \E u \in users :
                  /\ u.username = args[c].username /\ u.domain_id = args[c].domain
                  /\ r.user_id = u._id
             /\ r.amount_msats = args[c].amountMsats
             /\ r.invoice = response[c].pr
             /\ r.invoice \notin {NULL, UNSET}

\* a response with an invoice went out for one invocation while another
\* invocation with the same nonce, for which another invoice had been
\* created, was rejected: the one record holds the invoice of the response
C36_Witness ==
  \E c, d \in Calls :
    /\ c # d /\ args[c].nonce = args[d].nonce
    /\ pc[c] = "done" /\ result[c] = OK
    /\ pc[d] = "done" /\ result[d] = DUPLICATE_NONCE
    /\ paymentRequest[d] \notin {UNSET, paymentRequest[c]}
    /\ "createLightningInvoice" \in sdkCalls[c]
    /\ \E r \in payment_requests : r.invoice = response[c].pr
    /\ \A r \in payment_requests : r.invoice # paymentRequest[d]

(* ---------- properties: the sendable range ---------- *)

\* the amounts discovery advertises as sendable for the tenant of an invocation
SendableOf(c) ==
  LET settings == (CHOOSE d \in domains : d._id = args[c].domain).currency_settings["BTC"]
  IN settings.minSendable..settings.maxSendable

\* C37: a payment request with a positive amount outside the sendable
\* range of the tenant, the range a discovery response carries, is rejected
\* and writes no record: every response and every record is for an amount
\* inside the range.
C37_AmountWithinSendable ==
  /\ \A c \in Calls :
       (pc[c] # "idle" /\ args[c].amountMsats > 0
          /\ args[c].amountMsats \notin SendableOf(c))
         => /\ result[c] # OK
            /\ paymentId[c] \in {UNSET, NULL}
  /\ \A r \in payment_requests :
       (lookup[1].pc = "done" /\ lookup[1].result = OK)
         => r.amount_msats \in lookup[1].response.minSendable..lookup[1].response.maxSendable

(* ---------- properties: the settlement options of a user ---------- *)

\* C38: in the list of settlement options an invocation of discovery has
\* built, no two options name the same settlement layer and every option
\* carries exactly one asset, whatever chain addresses createUser,
\* addUserAddress and updateUser have stored for the user.
C38_OneOptionPerLayer ==
  \A l \in Lookups :
    lookup[l].pc \in {"currencies", "done"} =>
      LET options == lookup[l].settlementOptions
      IN /\ \A i, j \in 1..Len(options) :
              options[i].settlementLayer = options[j].settlementLayer => i = j
         /\ \A i \in 1..Len(options) : Len(options[i].assets) = 1

\* the store holds two polygon rows for the user createUser made from two
\* keys that differ in case, and the discovery for that user lists polygon once
C38_Witness ==
  /\ lookup[1].pc = "done" /\ lookup[1].result = OK
  /\ lookup[1].username = "carol"
  /\ Cardinality({r \in chain_addresses :
                    r.user_id = lookup[1].user._id /\ r.chain_name = "polygon"}) = 2
  /\ Cardinality({i \in 1..Len(lookup[1].settlementOptions) :
                    lookup[1].settlementOptions[i].settlementLayer = "polygon"}) = 1

(* ---------- properties: termination of initializeSparkWallet ---------- *)

\* a caller inside initializeSparkWallet: awaiting SparkWallet.initialize or
\* polling the initializing flag
InsideInitialize(c) == pc[c] \in {"initializing", "waitInit"}

\* C39: when every call of SparkWallet.initialize eventually returns or
\* throws and finitely many callers arrive, every call to
\* initializeSparkWallet eventually returns or throws: no caller polls the
\* initializing flag forever
C39_EveryCallerLeavesInit ==
  \A c \in Calls : InsideInitialize(c) ~> ~InsideInitialize(c)

\* a caller that polled the flag has left the loop after the initializer's
\* SparkWallet.initialize threw
C39_Witness ==
  \E c, d \in Calls :
    /\ c # d
    /\ result[c] = INIT_FAILED
    /\ result[d] = WALLET_UNDEFINED
    /\ "initialize" \notin sdkCalls[d]
    /\ ~InsideInitialize(d)

(* ---------- properties: the deactivated user ---------- *)

\* the user the invocation read was deactivated: the filter is_active: true of
\* getUsersByDomain hides it
ReadDeactivated(u) == u._id # NULL /\ ~u.is_active

\* C40: between deactivateUser(u) and a later activateUser(u), a discovery or
\* payment request for u's username issues no payment instruction and writes
\* no record: the user it reads is treated as not found
C40_DeactivatedUserNotServed ==
  /\ \A c \in Calls :
       ReadDeactivated(user[c])
       => /\ result[c] # OK
          /\ ~Wrote(c)
          /\ response[c] = NoResponse
  /\ \A l \in Lookups :
       ReadDeactivated(lookup[l].user)
       => lookup[l].result # OK

====
